---- MODULE Spec2Model ----
(***************************************************************************)
(* A model of pairprog's object store layer (src/pairprog/objectstore.py): *)
(* the key namespace (join_path, sub), the four backends                   *)
(* (LocalObjectStore, FSObjectStore, S3ObjectStore, RedisObjectStore), the *)
(* codec used by the S3 backend, and the Redis backed queue.               *)
(*                                                                         *)
(* Python strings are modelled as sequences of one-character strings, so   *)
(* that strip, startswith, removeprefix, replace and endswith are computed *)
(* as the code computes them.  None and "" are both the empty sequence:    *)
(* the only consumer of a prefix, join_path, filters both with `if e`.     *)
(***************************************************************************)
EXTENDS Integers, Sequences, FiniteSets, TLC

(***************************************************************************)
(* Bounds of the model.                                                    *)
(***************************************************************************)
\* the number of (handle, key) pairs written and tracked at once
MaxEntries == 1
\* the number of values a queue may hold before the model stops pushing
MaxQueue == 4
\* the largest max_length a bounded queue is created with
MaxBound == 2
\* the longest timeout of a blocking pop, in ticks
MaxTimeout == 2
\* the number of concurrent callers of a set
MaxCallers == 3
\* the number of configuration files read
MaxFiles == 2
\* the number of stores the factory has made and kept
MaxStores == 2
\* threads that call connect_redis, and calls each of them makes
MaxThreads == 2
MaxCalls == 2
\* the longest text and byte string handed to _to_bytes
MaxLen == 3
\* the calls of RedisSet.add with a score
MaxAdds == 3
\* the entries the tools append to TaskManager.step_instructions
MaxSteps == 3
\* the calls of a function wrapped by oscache
MaxCached == 3
\* the messages of the history, the tokens of a message, the calls of one
\* tool request, the token limit
MaxMessages == 6
MaxToks == 2
MaxToolCalls == 2
MaxLimit == 5

(***************************************************************************)
(* Strings.                                                                *)
(***************************************************************************)
Slash == <<"/">>

EndsWith(s, suf) ==
    /\ Len(s) >= Len(suf)
    /\ SubSeq(s, Len(s) - Len(suf) + 1, Len(s)) = suf

StartsWith(s, pre) ==
    /\ Len(s) >= Len(pre)
    /\ SubSeq(s, 1, Len(pre)) = pre

\* str.removeprefix
RemovePrefix(s, pre) ==
    IF StartsWith(s, pre) THEN SubSeq(s, Len(pre) + 1, Len(s)) ELSE s

RECURSIVE LStrip(_)
\* str.lstrip("/")
LStrip(s) ==
    IF s # <<>> /\ Head(s) = "/" THEN LStrip(Tail(s)) ELSE s

RECURSIVE RStrip(_)
\* str.rstrip("/")
RStrip(s) ==
    IF s # <<>> /\ s[Len(s)] = "/" THEN RStrip(SubSeq(s, 1, Len(s) - 1)) ELSE s

\* str.strip("/")
Strip(s) == RStrip(LStrip(s))

RECURSIVE Join(_)
\* "/".join(parts)
Join(parts) ==
    IF parts = <<>> THEN <<>>
    ELSE IF Len(parts) = 1 THEN parts[1]
    ELSE parts[1] \o Slash \o Join(Tail(parts))

RECURSIVE Replace(_, _)
\* str.replace(old, ""): every non-overlapping occurrence of old, left to right
Replace(s, old) ==
    IF s = <<>> \/ old = <<>> THEN s
    ELSE IF StartsWith(s, old) THEN Replace(SubSeq(s, Len(old) + 1, Len(s)), old)
    ELSE <<Head(s)>> \o Replace(Tail(s), old)

RECURSIVE Split(_, _)
\* the segments of s between "/" characters, with cur the segment being read
Split(s, cur) ==
    IF s = <<>> THEN <<cur>>
    ELSE IF Head(s) = "/" THEN <<cur>> \o Split(Tail(s), <<>>)
    ELSE Split(Tail(s), Append(cur, Head(s)))

\* the non-empty path segments of s, as pathlib keeps them
Segments(s) == SelectSeq(Split(s, <<>>), LAMBDA e : e # <<>>)

(***************************************************************************)
(* Key namespace: ObjectStore.join_path and join_pathb.                    *)
(***************************************************************************)
\* join_path(*args) of a handle with prefix `prefix`
JoinPath(prefix, args) ==
    LET all      == <<prefix>> \o args
        truthy   == SelectSeq(all, LAMBDA e : e # <<>>)
        stripped == [i \in 1..Len(truthy) |-> Strip(truthy[i])]
    IN  Join(SelectSeq(stripped, LAMBDA e : e # <<>>))

\* join_pathb(*args): the bucket, "/", and the joined path
JoinPathB(h, args) == h.bucket \o Slash \o JoinPath(h.prefix, args)

(***************************************************************************)
(* Python values and their serialised forms.  A value is [t, d]: its type  *)
(* and its data.  A byte string is [enc, v]: how it was made and of what.  *)
(***************************************************************************)
VStr   == [t |-> "str",   d |-> "text"]
VBytes == [t |-> "bytes", d |-> "raw"]
\* bytes that are the gzip compression of VBytes
VGz    == [t |-> "bytes", d |-> "gzip"]
VTuple == [t |-> "tuple", d |-> "1,2"]
VList  == [t |-> "list",  d |-> "1,2"]
VSet   == [t |-> "set",   d |-> "1,2"]
NoValue == [t |-> "None", d |-> ""]

\* the values the operations are called with
Values == {VStr, VBytes, VTuple}

\* pickle.dumps / pickle.loads
Pickle(v) == [enc |-> "pickle", v |-> v]
Unpickle(b) == b.v

\* gzip.decompress: fails on bytes that are not gzip data
Gunzip(b) ==
    IF b.enc = "raw" /\ b.v = VGz
    THEN [ok |-> TRUE, err |-> "", val |-> VBytes]
    ELSE [ok |-> FALSE, err |-> "BadGzipFile", val |-> NoValue]

\* json.dumps raises TypeError for these
JsonSerialisable(v) == v.t \in {"tuple", "list"}

\* json.loads(json.dumps(v)): a tuple comes back as a list
JsonLoads(b) == IF b.v.t = "tuple" THEN [b.v EXCEPT !.t = "list"] ELSE b.v

\* _to_bytes(o): the bytes and the content type (str, bytes, JSON, pickle)
ToBytes(o) ==
    IF o.t = "str"
    THEN [b |-> [enc |-> "utf8", v |-> o], ctype |-> "text/plain; charset=utf-8"]
    ELSE IF o.t = "bytes"
    THEN [b |-> [enc |-> "raw", v |-> o], ctype |-> "application/octet-stream"]
    ELSE IF JsonSerialisable(o)
    THEN [b |-> [enc |-> "json", v |-> o], ctype |-> "application/json"]
    ELSE [b |-> Pickle(o), ctype |-> "application/x-pickle"]

(***************************************************************************)
(* Results of operations: a returned value or a raised exception.          *)
(***************************************************************************)
Ok(v) == [ok |-> TRUE, err |-> "", val |-> v]
Raise(e) == [ok |-> FALSE, err |-> e, val |-> NoValue]

\* finite maps with a growing domain
MapPut(f, k, v) == [x \in DOMAIN f \cup {k} |-> IF x = k THEN v ELSE f[x]]
MapDel(f, k) == [x \in DOMAIN f \ {k} |-> f[x]]
EmptyMap == [x \in {} |-> NoValue]

(***************************************************************************)
(* State.                                                                  *)
(***************************************************************************)
VARIABLES
    handles,  \* the store objects made so far, each [cls, bucket, prefix]
    shelf,    \* LocalObjectStore: the shelve database, <<bucket, key>> -> pickle
    files,    \* FSObjectStore: the files under `path`, path segments -> pickle
    dirs,     \* FSObjectStore: the directories under `path`
    s3,       \* S3ObjectStore: <<bucket, key>> -> [Body, ContentType, ContentEncoding]
    redis,    \* the Redis server: key -> [t, v], a string or a list
    written,  \* history: <<handle, key>> -> [v, clean], the successful puts
    last,     \* history: the last operation, its arguments and its outcome
    queue,    \* the RedisQueue object: [prefix, bounded, max_length]
    qlog,     \* history: the last two calls on the queue, the latest last
    fifo,     \* history: the values pushed and not yet removed, oldest first
    waiter,   \* the caller of bpop or ibpop: where it is and what it got
    callers,  \* the concurrent callers of a set: caller -> [pc, ...]
    conf,     \* the configuration files read and what get_config made of them
    built,    \* the last call of new_object_store or sub(class_=...) and its outcome
    redis_pools, \* the module's dict redis_pools: url -> connection pool
    threads,  \* the threads inside connect_redis: thread -> [pc, url, ...]
    tm,       \* the TaskManager: its current state and its attributes
    cache,    \* oscache: the storage, and the executions of the wrapped function
    asst      \* the Assistant: its messages and the last request it built

vars == <<handles, shelf, files, dirs, s3, redis, written, last, queue, qlog, fifo,
          waiter, callers, conf, built, redis_pools, threads, tm, cache,
                   asst>>

\* the state of the blocking callers, the sets, the factory and the pools
extVars == <<waiter, callers, conf, built, redis_pools, threads, tm, cache,
                   asst>>

storeVars == <<shelf, files, dirs, s3, redis>>

(***************************************************************************)
(* Inputs.                                                                 *)
(***************************************************************************)
Classes == {"LocalObjectStore", "FSObjectStore", "S3ObjectStore", "RedisObjectStore"}

Bucket == <<"b", "k">>

kA   == <<"a">>
kB   == <<"b">>
kAB  == <<"a", "/", "b">>
kAXgz == <<"a", "/", "x", ".", "g", "z">>
Star == <<"*">>
GzSuffix == <<".", "g", "z">>

\* the keys put, got, deleted and tested
Keys == {kA, kAXgz}

\* the parts handed to sub() and the prefixes handed to list()
SubParts == {kA, kB, kAB}
\* the prefixes of the handles sub() is asked for
Prefixes == {<<>>, kA, kAB}
ListPrefixes == {<<>>, kA}

NoHandle == [cls |-> "", bucket |-> <<>>, prefix |-> <<>>]

(***************************************************************************)
(* Store handles: __init__ and sub.                                        *)
(***************************************************************************)
\* ObjectStore.__init__ and the subclasses' __init__: bucket and prefix
NewStore(cls, bucket, prefix) == [cls |-> cls, bucket |-> bucket, prefix |-> prefix]

\* a sub that joins the parts alone, without the parent's prefix
SubPrefixOfParts(h, args) == JoinPath(<<>>, args)

\* the prefix sub(*args) hands to the new store
SubPrefix(h, args) ==
    IF h.cls \in {"S3ObjectStore", "RedisObjectStore"} /\ args = <<>>
    THEN h.prefix
    ELSE JoinPath(h.prefix, args)

\* sub(*args) without a class_ or name: a store of the same class
SubStore(h, args) == NewStore(h.cls, h.bucket, SubPrefix(h, args))

\* a method that stores a joined path back into self.prefix
SelfRebased(h) == [h EXCEPT !.prefix = JoinPath(h.prefix, <<kA>>)]

\* the handle a method was called on, after the call: no method of a store
\* assigns self.bucket or self.prefix
SelfAfter(h) == h

(***************************************************************************)
(* The backends.  A mutating operation is an operator from the stores to   *)
(* its outcome: the result and the stores after it.                        *)
(***************************************************************************)
Stores == [shelf |-> shelf, files |-> files, dirs |-> dirs, s3 |-> s3, redis |-> redis]

Outcome(res, st) == [res |-> res, st |-> st]

(* ----------------------------- LocalObjectStore ------------------------ *)
LocalKey(h, key) == <<h.bucket, JoinPath(h.prefix, <<key>>)>>

\* a put that forgets join_path: db[key] = data
LocalPutRawKey(h, key, data) ==
    Outcome(Ok(NoValue),
            [Stores EXCEPT !.shelf = MapPut(shelf, <<h.bucket, key>>, Pickle(data))])

LocalPut(h, key, data) ==
    Outcome(Ok(NoValue),
            [Stores EXCEPT !.shelf = MapPut(shelf, LocalKey(h, key), Pickle(data))])

LocalGet(h, key) ==
    IF LocalKey(h, key) \in DOMAIN shelf
    THEN Ok(Unpickle(shelf[LocalKey(h, key)]))
    ELSE Raise("KeyError")

LocalExists(h, key) == LocalKey(h, key) \in DOMAIN shelf

\* a delete that ignores a missing key: db.pop(key, None)
LocalDeleteQuiet(h, key) ==
    Outcome(Ok(NoValue), [Stores EXCEPT !.shelf = MapDel(shelf, LocalKey(h, key))])

LocalDelete(h, key) ==
    IF LocalKey(h, key) \in DOMAIN shelf
    THEN Outcome(Ok(NoValue), [Stores EXCEPT !.shelf = MapDel(shelf, LocalKey(h, key))])
    ELSE Outcome(Raise("KeyError"), Stores)

LocalList(h, prefix) ==
    LET p == JoinPath(h.prefix, <<prefix>>) \o Slash
    IN  {RemovePrefix(e[2], p) :
            e \in {x \in DOMAIN shelf : x[1] = h.bucket /\ StartsWith(x[2], p)}}

(* ------------------------------- FSObjectStore ------------------------- *)
\* _file_path(key): Path(self.path).joinpath(key), with self.path = path/bucket
FilePath(h, key) == <<h.bucket>> \o Segments(key)

Parent(p) == SubSeq(p, 1, Len(p) - 1)

\* Path.exists(): a file or a directory
FsExists(p) == p \in dirs \/ p \in DOMAIN files

Ancestors(p) == {SubSeq(p, 1, n) : n \in 0..(Len(p) - 1)}

AncestorIsFile(p) == \E a \in Ancestors(p) : a \in DOMAIN files

FSPut(h, key, data) ==
    LET fp == FilePath(h, key)
    IN  IF ~FsExists(Parent(fp)) /\ AncestorIsFile(Parent(fp))
        THEN Outcome(Raise("NotADirectoryError"), Stores)   \* parent.mkdir fails
        ELSE IF fp \in dirs
        THEN Outcome(Raise("IsADirectoryError"), Stores)    \* write_bytes fails
        ELSE IF Parent(fp) \in DOMAIN files
        THEN Outcome(Raise("NotADirectoryError"), Stores)   \* write_bytes fails
        ELSE Outcome(Ok(NoValue),
                     [Stores EXCEPT !.dirs = dirs \cup Ancestors(fp),
                                    !.files = MapPut(files, fp, Pickle(data))])

FSExists(h, key) == FsExists(FilePath(h, key))

FSGet(h, key) ==
    IF ~FSExists(h, key) THEN Raise("KeyError")
    ELSE IF FilePath(h, key) \in dirs THEN Raise("IsADirectoryError")
    ELSE Ok(Unpickle(files[FilePath(h, key)]))

\* Path.unlink()
FSDelete(h, key) ==
    LET fp == FilePath(h, key)
    IN  IF fp \in DOMAIN files
        THEN Outcome(Ok(NoValue), [Stores EXCEPT !.files = MapDel(files, fp)])
        ELSE IF fp \in dirs THEN Outcome(Raise("IsADirectoryError"), Stores)
        ELSE IF AncestorIsFile(fp) THEN Outcome(Raise("NotADirectoryError"), Stores)
        ELSE Outcome(Raise("FileNotFoundError"), Stores)

\* path.joinpath(prefix).glob("**/*"), each relative to path/bucket
FSList(h, prefix) ==
    LET root == <<h.bucket>> \o Segments(prefix)
    IN  {Join(SubSeq(p, 2, Len(p))) :
            p \in {x \in dirs \cup DOMAIN files :
                      Len(x) > Len(root) /\ SubSeq(x, 1, Len(root)) = root}}

(* ------------------------------- S3ObjectStore ------------------------- *)
S3Key(h, key) == <<h.bucket, JoinPath(h.prefix, <<key>>)>>

S3Put(h, key, data) ==
    LET e == ToBytes(data)
    IN  Outcome(Ok(NoValue),
                [Stores EXCEPT !.s3 = MapPut(s3, S3Key(h, key),
                                    [Body |-> e.b, ContentType |-> e.ctype,
                                     ContentEncoding |-> ""])])

\* the decoding get() selects by the content type alone
Decode(body, ctype) ==
    IF ctype = "application/octet-stream" THEN Ok(body.v)
    ELSE IF ctype = "text/plain; charset=utf-8" THEN Ok(body.v)
    ELSE IF ctype = "text/plain" THEN Ok(body.v)
    ELSE IF ctype = "application/json" THEN Ok(JsonLoads(body))
    ELSE IF ctype = "application/x-pickle" THEN Ok(Unpickle(body))
    ELSE Raise("IOError")

S3Get(h, key) ==
    IF S3Key(h, key) \notin DOMAIN s3 THEN Raise("KeyError")
    ELSE LET r == s3[S3Key(h, key)]
         IN  IF \/ r.ContentType = "application/x-gzip"
                \/ r.ContentEncoding = "gzip"
             THEN Raise("AttributeError")     \* r.read(): r is the reply, a dict
             ELSE IF /\ r.ContentType = "application/octet-stream"
                     /\ EndsWith(S3Key(h, key)[2], GzSuffix)
             THEN Gunzip(r.Body)
             ELSE Decode(r.Body, r.ContentType)

S3Exists(h, key) == S3Key(h, key) \in DOMAIN s3

S3Delete(h, key) ==
    Outcome(Ok(NoValue), [Stores EXCEPT !.s3 = MapDel(s3, S3Key(h, key))])

S3List(h, prefix) ==
    LET p0 == JoinPath(h.prefix, <<prefix>>)
        p  == IF EndsWith(p0, Star) THEN SubSeq(p0, 1, Len(p0) - 1)
              ELSE IF ~EndsWith(p0, Slash) THEN p0 \o Slash
              ELSE p0
    IN  {LStrip(RemovePrefix(e[2], h.prefix)) :
            e \in {x \in DOMAIN s3 : x[1] = h.bucket /\ StartsWith(x[2], p)}}

(* ------------------------------ RedisObjectStore ----------------------- *)
RedisString(b) == [t |-> "string", v |-> b]

RedisPut(h, key, data) ==
    Outcome(Ok(NoValue),
            [Stores EXCEPT !.redis = MapPut(redis, JoinPathB(h, <<key>>),
                                            RedisString(Pickle(data)))])

RedisGet(h, key) ==
    LET k == JoinPathB(h, <<key>>)
    IN  IF k \notin DOMAIN redis THEN Raise("KeyError")
        ELSE IF redis[k].t # "string" THEN Raise("ResponseError")
        ELSE Ok(Unpickle(redis[k].v))

RedisExists(h, key) == JoinPathB(h, <<key>>) \in DOMAIN redis

RedisDelete(h, key) ==
    Outcome(Ok(NoValue), [Stores EXCEPT !.redis = MapDel(redis, JoinPathB(h, <<key>>))])

\* scan_iter(join_pathb("*")): the pattern is a literal followed by "*"
RedisList(h, prefix) ==
    LET pattern == JoinPathB(h, <<Star>>)
        literal == SubSeq(pattern, 1, Len(pattern) - 1)
    IN  {Strip(Replace(k, JoinPathB(h, <<<<>>>>))) :
            k \in {x \in DOMAIN redis : StartsWith(x, literal)}}

(* ------------------------------- dispatch ------------------------------ *)
PutOf(h, key, data) ==
    CASE h.cls = "LocalObjectStore" -> LocalPut(h, key, data)
      [] h.cls = "FSObjectStore"    -> FSPut(h, key, data)
      [] h.cls = "S3ObjectStore"    -> S3Put(h, key, data)
      [] h.cls = "RedisObjectStore" -> RedisPut(h, key, data)

GetOf(h, key) ==
    CASE h.cls = "LocalObjectStore" -> LocalGet(h, key)
      [] h.cls = "FSObjectStore"    -> FSGet(h, key)
      [] h.cls = "S3ObjectStore"    -> S3Get(h, key)
      [] h.cls = "RedisObjectStore" -> RedisGet(h, key)

ExistsOf(h, key) ==
    CASE h.cls = "LocalObjectStore" -> LocalExists(h, key)
      [] h.cls = "FSObjectStore"    -> FSExists(h, key)
      [] h.cls = "S3ObjectStore"    -> S3Exists(h, key)
      [] h.cls = "RedisObjectStore" -> RedisExists(h, key)

DeleteOf(h, key) ==
    CASE h.cls = "LocalObjectStore" -> LocalDelete(h, key)
      [] h.cls = "FSObjectStore"    -> FSDelete(h, key)
      [] h.cls = "S3ObjectStore"    -> S3Delete(h, key)
      [] h.cls = "RedisObjectStore" -> RedisDelete(h, key)

ListOf(h, prefix) ==
    CASE h.cls = "LocalObjectStore" -> LocalList(h, prefix)
      [] h.cls = "FSObjectStore"    -> FSList(h, prefix)
      [] h.cls = "S3ObjectStore"    -> S3List(h, prefix)
      [] h.cls = "RedisObjectStore" -> RedisList(h, prefix)

(***************************************************************************)
(* History kept for the properties.                                        *)
(***************************************************************************)
\* the namespaced key of `key` issued through h: the bucket and the joined path
NS(h, key) == <<h.bucket, JoinPath(h.prefix, <<key>>)>>

\* a put or delete of `key` through h touches the entry e = <<handle, key>>
\* when it names the same key or the same namespaced key
Touches(h, key, e) == e[2] = key \/ NS(e[1], e[2]) = NS(h, key)

Unclean(w, h, key) ==
    [e \in DOMAIN w |->
        IF Touches(h, key, e) THEN [w[e] EXCEPT !.clean = FALSE] ELSE w[e]]

WrittenAfterPut(h, key, data, res) ==
    IF res.ok
    THEN MapPut(Unclean(written, h, key), <<h, key>>, [v |-> data, clean |-> TRUE])
    ELSE Unclean(written, h, key)

WrittenAfterDelete(h, key, res) ==
    LET w == Unclean(written, h, key)
    IN  IF res.ok
        THEN [e \in {x \in DOMAIN w : NS(x[1], x[2]) # NS(h, key)} |-> w[e]]
        ELSE w

\* op: the method; h, self: the handle before and after it; args, child: what
\* sub was given and what it returned; ok: it returned (did not raise);
\* existed: before it, the key was put and exists(key) held; changed: the
\* stores after it differ from the stores before it
\* no put of the key, or of its namespaced key, is in effect: never put, or
\* deleted since
NeverPut(h, key) == \A e \in DOMAIN written : ~Touches(h, key, e)

\* the key was put and the store says it exists
Present(h, key) == ExistsOf(h, key) /\ ~NeverPut(h, key)

NoLast ==
    [op |-> "init", h |-> NoHandle, self |-> NoHandle, args |-> <<>>,
     child |-> NoHandle, ok |-> TRUE, existed |-> FALSE, changed |-> FALSE]

NoQueue == [prefix |-> <<>>, bounded |-> FALSE, max_length |-> 0]

(***************************************************************************)
(* The store operations as actions.  get, exists and list read the stores  *)
(* and change nothing: what they return is GetOf, ExistsOf and ListOf of   *)
(* the state they are called in.                                           *)
(***************************************************************************)
SetStores(st) ==
    /\ shelf' = st.shelf
    /\ files' = st.files
    /\ dirs' = st.dirs
    /\ s3' = st.s3
    /\ redis' = st.redis

\* the handles after a method of h ran and (for sub) returned the handles in made
HandlesAfter(h, made) == ((handles \ {h}) \cup {SelfAfter(h)}) \cup made

\* nobody waits in bpop
NoWaiter ==
    [mode |-> "none", pc |-> "idle", timeout |-> 0, waited |-> 0,
     res |-> NoValue, raised |-> FALSE, yielded |-> <<>>]

NoCallers == <<>>
NoConf == [files |-> <<>>, called |-> FALSE, res |-> <<>>]
NoBuilt == <<>>
NoThreads == <<>>
NoTask == <<>>
NoCache == <<>>
NoAsst == <<>>

\* no caller, no configuration, no pool
ExtIdle ==
    /\ waiter = NoWaiter
    /\ callers = NoCallers
    /\ conf = NoConf
    /\ built = NoBuilt
    /\ redis_pools = EmptyMap
    /\ threads = NoThreads
    /\ tm = NoTask
    /\ cache = NoCache
    /\ asst = NoAsst

Init ==
    /\ \E cls \in Classes : handles = {NewStore(cls, Bucket, <<>>)}
    /\ shelf = EmptyMap
    /\ files = EmptyMap
    /\ dirs = {<<>>}
    /\ s3 = EmptyMap
    /\ redis = EmptyMap
    /\ written = EmptyMap
    /\ last = NoLast
    /\ queue = NoQueue
    /\ qlog = <<>>
    /\ fifo = <<>>
    /\ ExtIdle

Sub(h, args) ==
    LET c == SubStore(h, args)
    IN  /\ c.prefix \in Prefixes
        /\ handles' = HandlesAfter(h, {c})
        /\ last' = [NoLast EXCEPT !.op = "sub", !.h = h, !.self = SelfAfter(h),
                                  !.args = args, !.child = c]
        /\ UNCHANGED <<storeVars, written, queue, qlog, fifo, extVars>>

Put(h, key, data) ==
    LET o == PutOf(h, key, data)
    IN  /\ <<h, key>> \in DOMAIN written \/ Cardinality(DOMAIN written) < MaxEntries
        /\ SetStores(o.st)
        /\ handles' = HandlesAfter(h, {})
        /\ written' = WrittenAfterPut(h, key, data, o.res)
        /\ last' = [NoLast EXCEPT !.op = "put", !.h = h, !.self = SelfAfter(h),
                                  !.ok = o.res.ok, !.existed = Present(h, key),
                                  !.changed = (o.st # Stores)]
        /\ UNCHANGED <<queue, qlog, fifo, extVars>>

Delete(h, key) ==
    LET o == DeleteOf(h, key)
    IN  /\ SetStores(o.st)
        /\ handles' = HandlesAfter(h, {})
        /\ written' = WrittenAfterDelete(h, key, o.res)
        /\ last' = [NoLast EXCEPT !.op = "delete", !.h = h, !.self = SelfAfter(h),
                                  !.ok = o.res.ok, !.existed = Present(h, key),
                                  !.changed = (o.st # Stores)]
        /\ UNCHANGED <<queue, qlog, fifo, extVars>>

Get(h, key) ==
    /\ GetOf(h, key).ok \in BOOLEAN
    /\ UNCHANGED vars

Exists(h, key) ==
    /\ ExistsOf(h, key) \in BOOLEAN
    /\ UNCHANGED vars

List(h, prefix) ==
    /\ ListOf(h, prefix) \subseteq ListOf(h, prefix)
    /\ UNCHANGED vars

SubArgs == {<<>>} \cup {<<p>> : p \in SubParts}

Next ==
    \/ \E h \in handles, args \in SubArgs : Sub(h, args)
    \/ \E h \in handles, key \in Keys, data \in Values : Put(h, key, data)
    \/ \E h \in handles, key \in Keys : Delete(h, key)
    \/ \E h \in handles, key \in Keys : Get(h, key)
    \/ \E h \in handles, key \in Keys : Exists(h, key)
    \/ \E h \in handles, prefix \in ListPrefixes : List(h, prefix)

Spec == Init /\ [][Next]_vars

(***************************************************************************)
(* RedisQueue: a Redis list, index 0 (here 1) being its head.              *)
(***************************************************************************)
V1 == [t |-> "int", d |-> "1"]
V2 == [t |-> "int", d |-> "2"]
V3 == [t |-> "int", d |-> "3"]

\* the values pushed
QValues == {V1, V2, V3}

kQueue == <<"q">>

\* the list stored at key k of the server r; Redis keeps no empty list
ListAt(r, k) == IF k \in DOMAIN r THEN r[k].v ELSE <<>>

SetList(r, k, l) ==
    IF l = <<>> THEN MapDel(r, k) ELSE MapPut(r, k, [t |-> "list", v |-> l])

\* LPUSH key b
LPush(r, k, b) == SetList(r, k, <<b>> \o ListAt(r, k))

\* LTRIM key 0 stop: keeps the elements at the indices 0..stop
LTrim(r, k, stop) ==
    LET l == ListAt(r, k)
    IN  SetList(r, k, SubSeq(l, 1, IF stop + 1 < Len(l) THEN stop + 1 ELSE Len(l)))

\* LPOP key: the head, or None
LPop(r, k) ==
    LET l == ListAt(r, k)
    IN  IF l = <<>> THEN [r |-> r, b |-> <<>>]
        ELSE [r |-> SetList(r, k, Tail(l)), b |-> <<Head(l)>>]

\* RPOP key: the tail, or None
RPop(r, k) ==
    LET l == ListAt(r, k)
    IN  IF l = <<>> THEN [r |-> r, b |-> <<>>]
        ELSE [r |-> SetList(r, k, SubSeq(l, 1, Len(l) - 1)), b |-> <<l[Len(l)]>>]

\* RedisQueue._return(r): a reply of the server (<<>> for None) unpickled
Return(b) == IF b # <<>> THEN Unpickle(b[1]) ELSE NoValue

\* RedisObjectStore.queue(key, max_length) and RedisQueue.__init__
NewRedisQueue(h, key, bounded, max_length) ==
    [prefix |-> JoinPathB(h, <<key>>), bounded |-> bounded,
     max_length |-> IF bounded THEN max_length ELSE 0]

\* the server after push(value)
PushOf(q, value) ==
    LET r1 == LPush(redis, q.prefix, Pickle(value))
    IN  IF q.bounded THEN LTrim(r1, q.prefix, q.max_length) ELSE r1

\* an unpush that pops from the wrong end
UnpushOfTail(q) ==
    LET o == RPop(redis, q.prefix)
    IN  [r |-> o.r, val |-> Return(o.b)]

\* the server after unpush(), and what it returns
UnpushOf(q) ==
    LET o == LPop(redis, q.prefix)
    IN  [r |-> o.r, val |-> Return(o.b)]

\* a pop that takes the head, the value pushed last
PopOfHead(q) ==
    LET o == LPop(redis, q.prefix)
    IN  [r |-> o.r, val |-> Return(o.b)]

\* the server after pop(), and what it returns
PopOf(q) ==
    LET o == RPop(redis, q.prefix)
    IN  [r |-> o.r, val |-> Return(o.b)]

QList == ListAt(redis, queue.prefix)

\* the last n elements of l
LastN(l, n) == SubSeq(l, Len(l) - n + 1, Len(l))

\* a call on the queue: its argument, what it returned, and the list and the
\* values pushed and not yet removed before it
QCall(op, val, res) ==
    [op |-> op, val |-> val, res |-> res, before |-> QList, pending |-> fifo]

Logged(c) == IF qlog = <<>> THEN <<c>> ELSE <<qlog[Len(qlog)], c>>

QueueInit ==
    /\ handles = {NewStore("RedisObjectStore", Bucket, <<>>)}
    /\ shelf = EmptyMap
    /\ files = EmptyMap
    /\ dirs = {<<>>}
    /\ s3 = EmptyMap
    /\ redis = EmptyMap
    /\ written = EmptyMap
    /\ last = NoLast
    /\ queue = NoQueue
    /\ qlog = <<>>
    /\ fifo = <<>>
    /\ ExtIdle

QueueOpen(h, bounded, max_length) ==
    /\ queue = NoQueue
    /\ queue' = NewRedisQueue(h, kQueue, bounded, max_length)
    /\ handles' = HandlesAfter(h, {})
    /\ last' = [NoLast EXCEPT !.op = "queue", !.h = h, !.self = SelfAfter(h)]
    /\ UNCHANGED <<storeVars, written, qlog, fifo, extVars>>

Push(value) ==
    /\ queue # NoQueue
    /\ Len(QList) < MaxQueue
    /\ redis' = PushOf(queue, value)
    /\ qlog' = Logged(QCall("push", value, NoValue))
    /\ fifo' = IF queue.bounded
                THEN LastN(Append(fifo, value), Len(ListAt(redis', queue.prefix)))
                ELSE Append(fifo, value)
    /\ UNCHANGED <<handles, shelf, files, dirs, s3, written, last, queue, extVars>>

Unpush ==
    /\ queue # NoQueue
    /\ redis' = UnpushOf(queue).r
    /\ qlog' = Logged(QCall("unpush", NoValue, UnpushOf(queue).val))
    /\ fifo' = SubSeq(fifo, 1, Len(fifo) - 1)
    /\ UNCHANGED <<handles, shelf, files, dirs, s3, written, last, queue, extVars>>

Pop ==
    /\ queue # NoQueue
    /\ redis' = PopOf(queue).r
    /\ qlog' = Logged(QCall("pop", NoValue, PopOf(queue).val))
    /\ fifo' = IF fifo = <<>> THEN fifo ELSE Tail(fifo)
    /\ UNCHANGED <<handles, shelf, files, dirs, s3, written, last, queue, extVars>>

QueueNext ==
    \/ \E h \in handles, bounded \in BOOLEAN, m \in 0..MaxBound :
           QueueOpen(h, bounded, m)
    \/ \E value \in QValues : Push(value)
    \/ Unpush
    \/ Pop

SpecQueue == QueueInit /\ [][QueueNext]_vars

(***************************************************************************)
(* Properties of the stores (specification Spec).                          *)
(***************************************************************************)
Root == CHOOSE h \in handles : h.prefix = <<>>

\* the value survives the codec: decoding its encoding gives it back
Lossless(v) == Decode(ToBytes(v).b, ToBytes(v).ctype) = Ok(v)

\* the puts through h at key that succeeded and that no later put or delete
\* of the key (the same key, or the same namespaced key) has touched
CleanPuts == {e \in DOMAIN written : written[e].clean}

\* raw bytes stored by the S3 backend under a namespaced key ending in ".gz"
GzBytesCase(h, key, v) ==
    /\ h.cls = "S3ObjectStore"
    /\ v.t = "bytes"
    /\ EndsWith(JoinPath(h.prefix, <<key>>), GzSuffix)

\* C1, as claimed: on every backend, after put(k, v) of a value the codec
\* round-trips, and with no later put or delete of k, get(k) through the same
\* handle returns v.
C1_PutGetAnyKey ==
    \A e \in CleanPuts :
        Lossless(written[e].v) => GetOf(e[1], e[2]) = Ok(written[e].v)

\* C1, amended: the same, except for raw bytes put through an S3ObjectStore
\* under a namespaced key that ends in ".gz", which get() gunzips.
C1_PutGet ==
    \A e \in CleanPuts :
        Lossless(written[e].v) /\ ~GzBytesCase(e[1], e[2], written[e].v)
            => GetOf(e[1], e[2]) = Ok(written[e].v)

\* on each backend a lossless value was put through a sub-store and, after a
\* later put of another key, is still the clean entry the claim speaks of
C1_Witness ==
    \E e \in CleanPuts :
        /\ Lossless(written[e].v)
        /\ e[1].prefix # <<>>
        /\ e[1].cls = "S3ObjectStore"
        /\ last.op = "put" /\ last.ok /\ last.h = e[1]

\* C2, as claimed: for every backend and every key never put, or put and then
\* deleted, get fails with KeyError and exists is false, also when keys that
\* have the key as a path prefix are stored.
C2_AbsentKey ==
    \A h \in handles, key \in Keys :
        NeverPut(h, key) =>
            /\ GetOf(h, key) = Raise("KeyError")
            /\ ~ExistsOf(h, key)

\* C3, as claimed: a put through S.sub("a") changes nothing of what get,
\* exists and list return through the sibling S.sub("b").
C3_SiblingIsolation ==
    [][\A S \in handles :
         LET ha == SubStore(S, <<kA>>)
             hb == SubStore(S, <<kB>>)
         IN  last'.op = "put" /\ last'.h = ha =>
                /\ \A key \in Keys :
                      /\ GetOf(hb, key)' = GetOf(hb, key)
                      /\ ExistsOf(hb, key)' = ExistsOf(hb, key)
                /\ ListOf(hb, <<>>)' = ListOf(hb, <<>>)]_vars

\* C4: S.sub("a").sub("b") and S.sub("a/b") have the same bucket and prefix
\* and address the same entries: every get and every put through one is the
\* get and the put through the other.
C4_SubEquivalence ==
    \A S \in handles :
        LET h1 == SubStore(SubStore(S, <<kA>>), <<kB>>)
            h2 == SubStore(S, <<kAB>>)
        IN  /\ h1.bucket = h2.bucket
            /\ h1.prefix = h2.prefix
            /\ \A key \in Keys :
                  /\ GetOf(h1, key) = GetOf(h2, key)
                  /\ \A e \in DOMAIN written :
                        e[1] = h1 /\ e[2] = key /\ written[e].clean
                            => GetOf(h2, key) = GetOf(e[1], key)
                  /\ \A v \in Values : PutOf(h1, key, v) = PutOf(h2, key, v)

\* sub("b") was just called on the handle sub("a") made, and an entry put
\* through the handle with prefix a/b is stored
C4_Witness ==
    /\ last.op = "sub"
    /\ last.h = SubStore(Root, <<kA>>)
    /\ last.args = <<kB>>
    /\ last.child = SubStore(Root, <<kAB>>)
    /\ \E e \in DOMAIN written :
          e[1] = last.child /\ GetOf(SubStore(Root, <<kAB>>), e[2]).ok

\* q joined with a key relative to it
Under(q, y) == IF q = <<>> THEN y ELSE q \o Slash \o y

\* y, relative to the handle, lies under q
InPrefix(q, y) == q = <<>> \/ StartsWith(y, q \o Slash)

\* an entry put at the namespaced key of `key` through h is in effect
Stored(h, key) == \E e \in DOMAIN written : NS(e[1], e[2]) = NS(h, key)

\* C5, as claimed: every key that list(q) yields through a handle names an
\* entry stored under q, the key being relative to q (joined with q it is the
\* entry's key) or relative to the handle's prefix and under q.
C5_ListScoped ==
    \A h \in handles, q \in ListPrefixes :
        \A y \in ListOf(h, q) :
            \/ Stored(h, Under(q, y))
            \/ InPrefix(q, y) /\ Stored(h, y)

RECURSIVE Flat(_)
\* the path segments of all the parts handed to sub
Flat(args) == IF args = <<>> THEN <<>> ELSE Segments(Head(args)) \o Flat(Tail(args))

\* C6: no operation changes the bucket or the prefix of the handle it is
\* called on, and sub returns a handle with the parent's bucket and the
\* parent's prefix extended by the parts.
C6_HandleImmutable ==
    /\ last.op # "init" =>
          /\ last.self.bucket = last.h.bucket
          /\ last.self.prefix = last.h.prefix
          /\ last.self \in handles
    /\ last.op = "sub" =>
          /\ last.child.bucket = last.h.bucket
          /\ Segments(last.child.prefix) = Segments(last.h.prefix) \o Flat(last.args)
          /\ last.child \in handles

\* sub("b") was called on a handle with the prefix a
C6_Witness ==
    /\ last.op = "sub"
    /\ last.h.prefix = kA
    /\ last.args = <<kB>>
    /\ DOMAIN written # {}

\* C7: delete of an absent key raises and changes nothing on the Local and FS
\* stores, and returns and changes nothing on the S3 and Redis stores.
C7_DeleteAbsent ==
    last.op = "delete" /\ ~last.existed =>
        /\ ~last.changed
        /\ last.h.cls \in {"LocalObjectStore", "FSObjectStore"} => ~last.ok
        /\ last.h.cls \in {"S3ObjectStore", "RedisObjectStore"} => last.ok

\* an absent key was deleted through a Local or FS store that holds another
C7_Witness ==
    /\ last.op = "delete"
    /\ ~last.existed
    /\ ~last.ok
    /\ DOMAIN written # {}

(***************************************************************************)
(* Properties of RedisQueue (specification SpecQueue).                     *)
(***************************************************************************)
QLast == qlog[Len(qlog)]

RECURSIVE Reverse(_)
Reverse(l) == IF l = <<>> THEN <<>> ELSE Append(Reverse(Tail(l)), Head(l))

\* C8: on an unbounded queue pop returns the oldest value pushed and not yet
\* removed, or None when there is none, and the list holds the values pushed
\* and not yet removed, the oldest at its tail.
C8_Fifo ==
    ~queue.bounded =>
        /\ QList = Reverse([i \in 1..Len(fifo) |-> Pickle(fifo[i])])
        /\ qlog # <<>> /\ QLast.op = "pop" =>
              /\ QLast.pending = <<>> => QLast.res = NoValue /\ fifo = <<>>
              /\ QLast.pending # <<>> =>
                    QLast.res = Head(QLast.pending) /\ fifo = Tail(QLast.pending)

\* 1, 2 and 3 were pushed in this order and two pops returned 1 and then 2
C8_Witness ==
    /\ ~queue.bounded
    /\ Len(qlog) = 2
    /\ qlog[1].op = "pop" /\ qlog[1].res = V1 /\ qlog[1].pending = <<V1, V2, V3>>
    /\ qlog[2].op = "pop" /\ qlog[2].res = V2
    /\ fifo = <<V3>>

\* unpush was called right after push
PushThenUnpush ==
    /\ Len(qlog) = 2
    /\ qlog[1].op = "push"
    /\ qlog[2].op = "unpush"

\* C9, as claimed: on any queue, bounded or not, unpush right after push(v)
\* returns v and leaves the queue as it was before the push.
C9_UnpushUndoesPush ==
    PushThenUnpush =>
        /\ qlog[2].res = qlog[1].val
        /\ QList = qlog[1].before

\* C9, amended: the same when the push evicted nothing, which is so on every
\* unbounded queue; unpush always returns v.
C9_UnpushUndoesPushKept ==
    PushThenUnpush =>
        /\ qlog[2].res = qlog[1].val
        /\ Len(qlog[2].before) = Len(qlog[1].before) + 1 => QList = qlog[1].before
        /\ ~queue.bounded => QList = qlog[1].before

\* on a bounded queue that held a value, push and then unpush were called
C9_Witness ==
    /\ PushThenUnpush
    /\ queue.bounded
    /\ qlog[1].before # <<>>
    /\ Len(qlog[2].before) = Len(qlog[1].before) + 1

\* C10, as claimed: a queue made with max_length = m never holds more than m
\* values after a push.
C10_Bounded ==
    queue.bounded /\ qlog # <<>> /\ QLast.op = "push" => Len(QList) <= queue.max_length

(***************************************************************************)
(* RedisQueue.bpop and ibpop: a caller blocked in BRPOP, the server, the   *)
(* clock, and another client that pushes (specification SpecBlocking).     *)
(***************************************************************************)
\* the timeouts handed to bpop, in ticks of the clock; 0 is the default
Timeouts == 0..MaxTimeout

\* the values the other client pushes
Pushed == {V1, V2}

\* a caller entering bpop(timeout), directly or as the next round of ibpop
Blocked(mode, t, yielded) ==
    [mode |-> mode, pc |-> "blocked", timeout |-> t, waited |-> 0,
     res |-> NoValue, raised |-> FALSE, yielded |-> yielded]

\* a bpop that treats the expiry as an error
BpopRaises(w, reply) ==
    IF reply = <<>> THEN [w EXCEPT !.pc = "done", !.raised = TRUE]
    ELSE IF w.mode = "ibpop"
         THEN Blocked("ibpop", w.timeout, Append(w.yielded, Return(reply)))
         ELSE [w EXCEPT !.pc = "done", !.res = Return(reply)]

\* bpop's return on the reply of BRPOP (<<>> for None, else the value of the
\* pair); ibpop yields the value and calls bpop again, or ends on None
BpopReturns(w, reply) ==
    LET v == IF reply = <<>> THEN NoValue ELSE Return(reply)
    IN  IF w.mode = "ibpop" /\ v # NoValue
        THEN Blocked("ibpop", w.timeout, Append(w.yielded, v))
        ELSE [w EXCEPT !.pc = "done", !.res = v]

BlockingInit ==
    /\ QueueInit

\* bpop(timeout) or ibpop(timeout) is called
BpopCall(mode, t) ==
    /\ queue # NoQueue
    /\ waiter.pc # "blocked"
    /\ waiter' = Blocked(mode, t, <<>>)
    /\ UNCHANGED <<handles, storeVars, written, last, queue, qlog, fifo,
                   callers, conf, built, redis_pools, threads, tm, cache,
                   asst>>

\* another client pushes
ProducerPush(value) ==
    /\ queue # NoQueue
    /\ Len(QList) + Len(waiter.yielded) < MaxQueue
    /\ redis' = PushOf(queue, value)
    /\ fifo' = IF queue.bounded
                THEN LastN(Append(fifo, value), Len(ListAt(redis', queue.prefix)))
                ELSE Append(fifo, value)
    /\ UNCHANGED <<handles, shelf, files, dirs, s3, written, last, queue, qlog, extVars>>

\* BRPOP finds the list non-empty: the server removes the tail and replies
BrpopServe ==
    /\ waiter.pc = "blocked"
    /\ QList # <<>>
    /\ redis' = RPop(redis, queue.prefix).r
    /\ waiter' = BpopReturns(waiter, RPop(redis, queue.prefix).b)
    /\ fifo' = Tail(fifo)
    /\ UNCHANGED <<handles, shelf, files, dirs, s3, written, last, queue, qlog,
                   callers, conf, built, redis_pools, threads, tm, cache,
                   asst>>

\* the clock of a BRPOP with a timeout that is not 0
Tick ==
    /\ waiter.pc = "blocked"
    /\ QList = <<>>
    /\ waiter.timeout > 0
    /\ waiter.waited < waiter.timeout
    /\ waiter' = [waiter EXCEPT !.waited = @ + 1]
    /\ UNCHANGED <<handles, storeVars, written, last, queue, qlog, fifo,
                   callers, conf, built, redis_pools, threads, tm, cache,
                   asst>>

\* the timeout of a BRPOP expires: the server replies nil; timeout 0 never expires
BrpopExpire ==
    /\ waiter.pc = "blocked"
    /\ QList = <<>>
    /\ waiter.timeout > 0
    /\ waiter.waited = waiter.timeout
    /\ waiter' = BpopReturns(waiter, <<>>)
    /\ UNCHANGED <<handles, storeVars, written, last, queue, qlog, fifo,
                   callers, conf, built, redis_pools, threads, tm, cache,
                   asst>>

BlockingNext ==
    \/ \E h \in handles, bounded \in BOOLEAN, m \in 0..MaxBound :
           QueueOpen(h, bounded, m)
    \/ \E mode \in {"bpop", "ibpop"}, t \in Timeouts : BpopCall(mode, t)
    \/ \E value \in Pushed : ProducerPush(value)
    \/ BrpopServe
    \/ Tick
    \/ BrpopExpire

\* the server answers and the clock runs; the other client may stop pushing
SpecBlocking ==
    /\ BlockingInit
    /\ [][BlockingNext]_vars
    /\ WF_vars(BrpopServe)
    /\ WF_vars(Tick)
    /\ WF_vars(BrpopExpire)

\* C11, as claimed: bpop called with timeout 0 on a queue that is empty and
\* stays empty eventually returns; it does not block forever.
C11_BpopZeroReturns ==
    (waiter.pc = "blocked" /\ waiter.timeout = 0 /\ QList = <<>>)
        ~> (waiter.pc = "done" \/ QList # <<>>)

\* C12: with a positive timeout every bpop ends: on an empty queue it returns
\* None at the expiry and does not raise, on a value it returns the oldest
\* one; ibpop yields the values, oldest first, and ends at the first None.
C12_BpopTimeout ==
    /\ (waiter.pc = "blocked" /\ waiter.timeout > 0) ~> (waiter.pc = "done")
    /\ [][/\ waiter.pc = "blocked" /\ waiter.timeout > 0 /\ waiter' # waiter
             /\ QList = <<>> =>
                    /\ waiter.waited = waiter.timeout => waiter'.pc = "done"
                    /\ waiter'.pc = "done" =>
                           /\ waiter.waited = waiter.timeout
                           /\ waiter'.res = NoValue
                           /\ ~waiter'.raised
                           /\ waiter'.yielded = waiter.yielded
                           /\ QList' = <<>>
          /\ waiter.pc = "blocked" /\ waiter.timeout > 0 /\ waiter' # waiter
             /\ QList # <<>> =>
                    /\ fifo' = Tail(fifo)
                    /\ ~waiter'.raised
                    /\ waiter.mode = "bpop" =>
                           waiter'.pc = "done" /\ waiter'.res = Head(fifo)
                    /\ waiter.mode = "ibpop" =>
                           /\ waiter'.pc = "blocked"
                           /\ waiter'.yielded = Append(waiter.yielded, Head(fifo))
         ]_vars

\* ibpop with a timeout yielded 1 and 2 and ended at the expiry
C12_Witness ==
    /\ waiter.mode = "ibpop"
    /\ waiter.pc = "done"
    /\ waiter.timeout > 0
    /\ waiter.waited = waiter.timeout
    /\ waiter.res = NoValue
    /\ ~waiter.raised
    /\ waiter.yielded = <<V1, V2>>

(***************************************************************************)
(* RedisSet: callers that add to and move between two sets of one store,   *)
(* each call one command of the server (specification SpecSet).            *)
(***************************************************************************)
Callers == 1..MaxCallers

\* the value caller c works with; distinct callers have distinct values
IntValue(c) == [t |-> "int", d |-> ToString(c)]

kSet == <<"s", "e", "t">>
kOther == <<"o", "t", "h", "e", "r">>
SetKeys == {kSet, kOther}

\* RedisSet.__init__: the set object of store h at key
NewRedisSet(h, key) == [prefix |-> JoinPathB(h, <<key>>)]

\* the only store of the specification, and its sets
SetStore == NewStore("RedisObjectStore", Bucket, <<>>)
ThisSet == NewRedisSet(SetStore, kSet)
OtherSet == NewRedisSet(SetStore, kOther)

\* the members of the set at key k of the server r; Redis keeps no empty set
MembersAt(r, k) == IF k \in DOMAIN r THEN r[k].v ELSE {}

SetMembers(r, k, m) ==
    IF m = {} THEN MapDel(r, k) ELSE MapPut(r, k, [t |-> "set", v |-> m])

\* an add that stores the value as the whole set
SAddReplaces(r, k, b) ==
    [r |-> SetMembers(r, k, {b}), n |-> IF b \in MembersAt(r, k) THEN 0 ELSE 1]

\* SADD key b: the server after it and the number of members added
SAdd(r, k, b) ==
    [r |-> SetMembers(r, k, MembersAt(r, k) \cup {b}),
     n |-> IF b \in MembersAt(r, k) THEN 0 ELSE 1]

\* a move that adds to the destination and leaves the source alone
SMoveCopies(r, src, dst, b) ==
    IF b \in MembersAt(r, src)
    THEN [r |-> SetMembers(r, dst, MembersAt(r, dst) \cup {b}), n |-> 1]
    ELSE [r |-> r, n |-> 0]

\* SMOVE src dst b: one command; nothing happens when b is not in src
SMove(r, src, dst, b) ==
    IF b \in MembersAt(r, src)
    THEN [r |-> SetMembers(SetMembers(r, src, MembersAt(r, src) \ {b}),
                           dst, MembersAt(r, dst) \cup {b}),
          n |-> 1]
    ELSE [r |-> r, n |-> 0]

\* RedisSet.add(value) without a score
RedisSetAdd(set, value) == SAdd(redis, set.prefix, Pickle(value))

\* RedisSet.move(other, value)
RedisSetMove(set, other, value) == SMove(redis, set.prefix, other.prefix, Pickle(value))

\* RedisSet.get(): the members unpickled
RedisSetGet(set) == {Unpickle(b) : b \in MembersAt(redis, set.prefix)}

\* a caller that has not called yet
IdleCaller == [pc |-> "idle", op |-> "none", set |-> NoQueue, val |-> NoValue, res |-> 0]

\* a store, its backends empty, and nothing else
StoresIdle(h) ==
    /\ handles = {h}
    /\ shelf = EmptyMap
    /\ files = EmptyMap
    /\ dirs = {<<>>}
    /\ s3 = EmptyMap
    /\ redis = EmptyMap
    /\ written = EmptyMap
    /\ last = NoLast
    /\ queue = NoQueue
    /\ qlog = <<>>
    /\ fifo = <<>>

SetInit ==
    /\ StoresIdle(SetStore)
    /\ waiter = NoWaiter
    /\ callers = [c \in Callers |-> IdleCaller]
    /\ conf = NoConf
    /\ built = NoBuilt
    /\ redis_pools = EmptyMap
    /\ threads = NoThreads
    /\ tm = NoTask
    /\ cache = NoCache
    /\ asst = NoAsst

\* caller c calls set.add(value) or set.move(the other set, value)
SetCall(c, op, set, value) ==
    /\ callers[c].pc = "idle"
    /\ callers' = [callers EXCEPT ![c] =
                       [pc |-> "sent", op |-> op, set |-> set, val |-> value, res |-> 0]]
    /\ UNCHANGED <<handles, storeVars, written, last, queue, qlog, fifo,
                   waiter, conf, built, redis_pools, threads, tm, cache,
                   asst>>

\* the set that is not `set`
TheOther(set) == IF set = ThisSet THEN OtherSet ELSE ThisSet

\* the server runs the command of caller c and replies
SetServe(c) ==
    /\ callers[c].pc = "sent"
    /\ LET call == callers[c]
           o == IF call.op = "add"
                THEN RedisSetAdd(call.set, call.val)
                ELSE RedisSetMove(call.set, TheOther(call.set), call.val)
       IN  /\ redis' = o.r
           /\ callers' = [callers EXCEPT ![c] = [call EXCEPT !.pc = "done", !.res = o.n]]
    /\ UNCHANGED <<handles, shelf, files, dirs, s3, written, last, queue, qlog, fifo,
                   waiter, conf, built, redis_pools, threads, tm, cache,
                   asst>>

SetNext ==
    \/ \E c \in Callers, set \in {ThisSet, OtherSet} : SetCall(c, "add", set, IntValue(c))
    \/ \E c \in Callers, d \in Callers : SetCall(c, "move", ThisSet, IntValue(d))
    \/ \E c \in Callers : SetServe(c)

SpecSet == SetInit /\ [][SetNext]_vars

\* the callers whose command of kind op on set the server has run
Served(op, set) ==
    {c \in Callers : callers[c].pc = "done" /\ callers[c].op = op /\ callers[c].set = set}

\* C13: while only add is called, each set holds exactly the values of the
\* adds the server has run, one member per caller: N concurrent adds of N
\* distinct values leave N members in every order, and none is lost.
C13_NoLostAdd ==
    (\A c \in Callers : callers[c].op # "move") =>
        \A set \in {ThisSet, OtherSet} :
            /\ RedisSetGet(set) = {IntValue(c) : c \in Served("add", set)}
            /\ Cardinality(MembersAt(redis, set.prefix)) = Cardinality(Served("add", set))

\* every caller has added its value to the same set
C13_Witness ==
    /\ Served("add", ThisSet) = Callers
    /\ Cardinality(RedisSetGet(ThisSet)) = MaxCallers

\* the step in which the server runs the move of caller c
MoveStep(c) ==
    callers[c].pc = "sent" /\ callers[c].op = "move" /\ callers'[c].pc = "done"

\* b is a member of exactly one of the two sets
InOne(b) ==
    (b \in MembersAt(redis, ThisSet.prefix)) # (b \in MembersAt(redis, OtherSet.prefix))

\* C15: the move of a member takes it out of this set and into the other in
\* one step, so that a value in exactly one of the sets is in exactly one of
\* them in every state; the move of a non-member changes nothing.
C15_MoveAtomic ==
    [][\A c \in Callers : MoveStep(c) =>
          LET b == Pickle(callers[c].val)
              src == MembersAt(redis, ThisSet.prefix)
              dst == MembersAt(redis, OtherSet.prefix)
          IN  /\ b \in src =>
                    /\ MembersAt(redis', ThisSet.prefix) = src \ {b}
                    /\ MembersAt(redis', OtherSet.prefix) = dst \cup {b}
                    /\ callers'[c].res = 1
              /\ b \notin src => redis' = redis /\ callers'[c].res = 0
              /\ InOne(b) => InOne(b)'
      ]_vars

\* a value added to this set was moved, and is now in the other set only
C15_Witness ==
    \E c, d \in Callers :
        /\ c \in Served("add", ThisSet)
        /\ d \in Served("move", ThisSet)
        /\ callers[d].val = IntValue(c)
        /\ callers[d].res = 1
        /\ IntValue(c) \in RedisSetGet(OtherSet)
        /\ IntValue(c) \notin RedisSetGet(ThisSet)

(***************************************************************************)
(* ObjectSet: callers that add to one set kept as one entry of a store,    *)
(* each add a get and then a put (specification SpecObjectSet).            *)
(***************************************************************************)
\* the classes whose set() returns an ObjectSet
ObjectSetClasses == {"LocalObjectStore", "FSObjectStore", "S3ObjectStore"}

\* a Python set of values
SetValue(m) == [t |-> "set", d |-> m]

\* ObjectSet.get(): the set stored at the key, empty when the key is absent,
\* a TypeError when the entry is not a set
ObjectSetGet(h, key) ==
    LET g == GetOf(h, key)
    IN  IF g.ok
        THEN IF g.val.t = "set" THEN g ELSE Raise("TypeError")
        ELSE IF g.err = "KeyError" THEN Ok(SetValue({})) ELSE g

\* an add that puts the new value alone
ObjectSetAddedAlone(o, value) == SetValue({value})

\* o.add(value): the set handed to put
ObjectSetAdded(o, value) == SetValue(o.d \cup {value})

\* the store the set lives in
ObjectSetStore == CHOOSE h \in handles : TRUE

ObjectSetInit ==
    /\ \E cls \in ObjectSetClasses : StoresIdle(NewStore(cls, Bucket, <<>>))
    /\ waiter = NoWaiter
    /\ callers = [c \in Callers |->
                     [pc |-> "idle", o |-> SetValue({}), val |-> IntValue(c)]]
    /\ conf = NoConf
    /\ built = NoBuilt
    /\ redis_pools = EmptyMap
    /\ threads = NoThreads
    /\ tm = NoTask
    /\ cache = NoCache
    /\ asst = NoAsst

\* caller c in add(value): o = self.get()
ObjectSetAddGet(c) ==
    /\ callers[c].pc = "idle"
    /\ LET g == ObjectSetGet(ObjectSetStore, kSet)
       IN  callers' = [callers EXCEPT ![c].pc = IF g.ok THEN "got" ELSE "failed",
                                      ![c].o = g.val]
    /\ UNCHANGED <<handles, storeVars, written, last, queue, qlog, fifo,
                   waiter, conf, built, redis_pools, threads, tm, cache,
                   asst>>

\* caller c in add(value): o.add(value); self.os.put(self.key, o)
ObjectSetAddPut(c) ==
    /\ callers[c].pc = "got"
    /\ SetStores(PutOf(ObjectSetStore, kSet,
                       ObjectSetAdded(callers[c].o, callers[c].val)).st)
    /\ callers' = [callers EXCEPT ![c].pc = "done"]
    /\ UNCHANGED <<handles, written, last, queue, qlog, fifo,
                   waiter, conf, built, redis_pools, threads, tm, cache,
                   asst>>

ObjectSetNext ==
    \/ \E c \in Callers : ObjectSetAddGet(c)
    \/ \E c \in Callers : ObjectSetAddPut(c)

SpecObjectSet == ObjectSetInit /\ [][ObjectSetNext]_vars

\* the values of the set as get() returns it now
StoredSet == ObjectSetGet(ObjectSetStore, kSet).val.d

\* the values of the callers whose add has returned
AddedValues == {callers[c].val : c \in {x \in Callers : callers[x].pc = "done"}}

\* C14: add is a read and then a write of the whole entry: the put of a
\* caller stores the set that caller read plus its value, whatever the
\* entry holds by then, so the stored set holds values of finished adds
\* only, but not always all of them.
C14_ReadModifyWrite ==
    /\ [](StoredSet \subseteq AddedValues)
    /\ [][\A c \in Callers :
             callers[c].pc = "got" /\ callers'[c].pc = "done" =>
                 StoredSet' = callers[c].o.d \cup {callers[c].val}]_vars

\* two adds have returned and the set holds the value of one of them only
C14_Witness ==
    \E c, d \in Callers :
        /\ c # d
        /\ callers[c].pc = "done"
        /\ callers[d].pc = "done"
        /\ \A x \in Callers \ {c, d} : callers[x].pc = "idle"
        /\ StoredSet = {callers[c].val}

(***************************************************************************)
(* get_config: the configuration files, each a nested dict as              *)
(* yaml.safe_load returns it, flattened to dotted keys, merged and nested  *)
(* again (specification SpecConfig).                                       *)
(***************************************************************************)
\* a node of a nested dict: a leaf with its value, or a dict of nodes
Leaf(v) == [leaf |-> TRUE, v |-> v, d |-> << >>]
Dict(d) == [leaf |-> FALSE, v |-> "", d |-> d]
EmptyDict == Dict([k \in {} |-> Leaf("")])

\* p is a proper prefix of q
ProperPrefix(p, q) == Len(p) < Len(q) /\ SubSeq(q, 1, Len(p)) = p

\* the keys of the files: default, caches.p.class_, caches.p.url, and
\* caches.p itself set to a scalar
kDefault == <<"default">>
kClass == <<"caches", "p", "class_">>
kUrl == <<"caches", "p", "url">>
kProfile == <<"caches", "p">>
ConfigKeys == {kDefault, kClass, kUrl, kProfile}
ConfigValues == {"A", "B"}

\* the dotted keys and values of one file: no key of a file is a leaf and a
\* section at once
FlatFiles ==
    {f \in UNION {[ks -> ConfigValues] : ks \in SUBSET ConfigKeys} :
        \A p, q \in DOMAIN f : ~ProperPrefix(p, q)}

\* the nested dict with the leaves of f
RECURSIVE Nested(_)
Nested(f) ==
    Dict([k \in {p[1] : p \in DOMAIN f} |->
             IF <<k>> \in DOMAIN f THEN Leaf(f[<<k>>])
             ELSE Nested([q \in {Tail(p) : p \in {x \in DOMAIN f : x[1] = k}} |->
                              f[<<k>> \o q]])])

\* the documents yaml.safe_load returns
ConfigFiles == {Nested(f) : f \in FlatFiles}

\* flatten(d, reducer="dot"): the pairs <<dotted key, value>> of the leaves
\* of d, the dotted key as the sequence of its parts
RECURSIVE Flatten(_, _)
Flatten(node, parent) ==
    IF node.leaf THEN {<<parent, node.v>>}
    ELSE UNION {Flatten(node.d[k], Append(parent, k)) : k \in DOMAIN node.d}

\* a merge in which the first file to set a key wins
RECURSIVE MergedFirstWins(_)
MergedFirstWins(docs) ==
    IF docs = <<>> THEN [k \in {} |-> ""]
    ELSE LET rest == MergedFirstWins(Tail(docs))
             mine == Flatten(Head(docs), <<>>)
             keys == {x[1] : x \in mine}
         IN  [k \in DOMAIN rest \cup keys |->
                 IF k \in keys THEN (CHOOSE x \in mine : x[1] = k)[2] ELSE rest[k]]

\* dict(lines): lines holds the pairs of the files in order, and a later pair
\* replaces an earlier pair with the same key
RECURSIVE Merged(_)
Merged(docs) ==
    IF docs = <<>> THEN [k \in {} |-> ""]
    ELSE LET n == Len(docs)
             rest == Merged(SubSeq(docs, 1, n - 1))
             mine == Flatten(docs[n], <<>>)
             keys == {x[1] : x \in mine}
         IN  [k \in DOMAIN rest \cup keys |->
                 IF k \in keys THEN (CHOOSE x \in mine : x[1] = k)[2] ELSE rest[k]]

\* unflatten(flat, splitter="dot"): raises when a key is a leaf and also the
\* parent of another key, because it then indexes or overwrites the leaf
Unflatten(flat) ==
    IF \E p, q \in DOMAIN flat : ProperPrefix(p, q)
    THEN [ok |-> FALSE, err |-> "ValueError", val |-> EmptyDict]
    ELSE [ok |-> TRUE, err |-> "", val |-> Nested(flat)]

\* get_config(paths), the files at the paths given
GetConfig(docs) == Unflatten(Merged(docs))

NoResult == [ok |-> FALSE, err |-> "not called", val |-> EmptyDict]

ConfigInit ==
    /\ StoresIdle(NewStore("LocalObjectStore", Bucket, <<>>))
    /\ waiter = NoWaiter
    /\ callers = NoCallers
    /\ \E n \in 0..MaxFiles : \E docs \in [1..n -> ConfigFiles] :
           conf = [files |-> docs, called |-> FALSE, res |-> NoResult]
    /\ built = NoBuilt
    /\ redis_pools = EmptyMap
    /\ threads = NoThreads
    /\ tm = NoTask
    /\ cache = NoCache
    /\ asst = NoAsst

GetConfigCall ==
    /\ conf # NoConf
    /\ ~conf.called
    /\ conf' = [conf EXCEPT !.called = TRUE, !.res = GetConfig(conf.files)]
    /\ UNCHANGED <<handles, storeVars, written, last, queue, qlog, fifo,
                   waiter, callers, built, redis_pools, threads, tm, cache,
                   asst>>

ConfigNext == GetConfigCall

SpecConfig == ConfigInit /\ [][ConfigNext]_vars

\* the value of the leaf at path p of a nested dict: <<v>>, or <<>> when
\* there is no leaf at p
RECURSIVE LeafAt(_, _)
LeafAt(node, p) ==
    IF p = <<>> THEN (IF node.leaf THEN <<node.v>> ELSE <<>>)
    ELSE IF node.leaf \/ p[1] \notin DOMAIN node.d THEN <<>>
    ELSE LeafAt(node.d[p[1]], Tail(p))

\* the files, by their index, that set a leaf at p
Setting(p) == {i \in 1..Len(conf.files) : LeafAt(conf.files[i], p) # <<>>}

Max(S) == CHOOSE x \in S : \A y \in S : y <= x

\* the paths a leaf may be at: the keys and what lies above and below them
LeafPaths ==
    ConfigKeys \cup {<<"caches">>} \cup {Append(kProfile, "x")} \cup {<<"x">>}

\* C18, as claimed: the merged result holds, for every leaf key, the value
\* of the latest file that sets it.
C18_LaterWins ==
    conf # NoConf /\ conf.called =>
        /\ conf.res.ok
        /\ \A p \in LeafPaths :
               Setting(p) # {} =>
                   LeafAt(conf.res.val, p) = LeafAt(conf.files[Max(Setting(p))], p)

\* some key is a leaf in one file and a section in another
LeafAndSection ==
    \E i, j \in 1..Len(conf.files) : \E p, q \in LeafPaths :
        /\ ProperPrefix(p, q)
        /\ LeafAt(conf.files[i], p) # <<>>
        /\ LeafAt(conf.files[j], q) # <<>>

\* C18, amended: the same, and no other leaf, when no key is a leaf in one
\* file and a section in another; when one is, get_config raises.
C18_LaterWinsNoClash ==
    conf # NoConf /\ conf.called =>
        /\ conf.res.ok = ~LeafAndSection
        /\ conf.res.ok =>
               \A p \in LeafPaths :
                   LeafAt(conf.res.val, p) =
                       IF Setting(p) = {} THEN <<>>
                       ELSE LeafAt(conf.files[Max(Setting(p))], p)

\* two files set the class of the profile, the first sets its url alone
C18_Witness ==
    /\ conf # NoConf
    /\ conf.called
    /\ Len(conf.files) = 2
    /\ LeafAt(conf.files[1], kClass) = <<"A">>
    /\ LeafAt(conf.files[2], kClass) = <<"B">>
    /\ LeafAt(conf.files[1], kUrl) = <<"A">>
    /\ LeafAt(conf.files[2], kUrl) = <<>>
    /\ LeafAt(conf.res.val, kClass) = <<"B">>
    /\ LeafAt(conf.res.val, kUrl) = <<"A">>

(***************************************************************************)
(* new_object_store, the constructors and sub with a class_ or a name:     *)
(* the stores as objects with their client (specification SpecFactory).    *)
(***************************************************************************)
\* a bucket name with an underscore
BadBucket == <<"b", "_", "k">>
Buckets == {Bucket, BadBucket}

\* "_" in bucket
Underscore(bucket) == \E i \in 1..Len(bucket) : bucket[i] = "_"

\* the configurations: a default and two profiles; no default and a profile
\* without class_; a default that names no profile; a profile given as the
\* configuration; and nothing at all
CfgProfiles ==
    Nested((<<"default">> :> "p") @@ (<<"caches", "p", "class_">> :> "LocalObjectStore")
           @@ (<<"caches", "q", "class_">> :> "RedisObjectStore"))
CfgNoClass ==
    Nested((<<"caches", "p", "class_">> :> "S3ObjectStore") @@ (<<"caches", "q", "url">> :> "u"))
CfgNoDefault ==
    Nested((<<"default">> :> "r") @@ (<<"caches", "p", "class_">> :> "FSObjectStore"))
CfgProfile == Nested(<<"class_">> :> "FSObjectStore")
FactoryConfigs == {CfgProfiles, CfgNoClass, CfgNoDefault, CfgProfile, EmptyDict}

\* the names asked for; <<>> is no name
ProfileNames == {<<>>, <<"default">>, <<"p">>, <<"q">>, <<"r">>}

\* "k" in d, for a dict d
HasKey(node, k) == ~node.leaf /\ k \in DOMAIN node.d

\* cache_config["class_"] as <<class>>, or <<>> when there is none
ClassOf(node) ==
    IF HasKey(node, "class_") /\ node.d["class_"].leaf THEN <<node.d["class_"].v>> ELSE <<>>

\* the outcome of a call of the factory: the store made, or the exception,
\* the name its message names, the names it lists, and the number of clients
\* opened so far
Made(store, opened) ==
    [ok |-> TRUE, err |-> "", named |-> <<>>, keys |-> {}, store |-> store, opened |-> opened]
Fails(err, named, keys, opened) ==
    [ok |-> FALSE, err |-> err, named |-> named, keys |-> keys, store |-> NoHandle,
     opened |-> opened]

\* clz(bucket=, prefix=, client=): the constructors.  ObjectStore.__init__
\* refuses an underscore; RedisObjectStore.__init__ does not call it.  S3 and
\* Redis stores take the client given or open one; client 0 is no client.
Construct(cls, bucket, prefix, client, opened) ==
    IF cls # "RedisObjectStore" /\ Underscore(bucket)
    THEN Fails("ValueError", <<>>, {}, opened)
    ELSE IF cls \in {"S3ObjectStore", "RedisObjectStore"}
    THEN IF client # 0
         THEN Made([cls |-> cls, bucket |-> bucket, prefix |-> prefix, client |-> client],
                   opened)
         ELSE Made([cls |-> cls, bucket |-> bucket, prefix |-> prefix, client |-> opened + 1],
                   opened + 1)
    ELSE Made([cls |-> cls, bucket |-> bucket, prefix |-> prefix, client |-> 0], opened)

\* new_object_store(**kw) up to the choice of cache_config: its class_, or
\* the failure.  kw.config = <<>> and kw.class_ = <<>> read the files.
Resolve(kw, loaded, opened) ==
    LET config == IF kw.config # <<>> THEN kw.config
                  ELSE IF kw.class_ # <<>> THEN <<>>
                  ELSE <<loaded>>
    IN  IF config = <<>> THEN Made(kw.class_, opened)
        ELSE LET c == config[1]
             IN  IF HasKey(c, "class_") THEN Made(ClassOf(c), opened)
                 ELSE IF ~HasKey(c, "caches")
                 THEN Fails("AssertionError", <<>>, {}, opened)
                 ELSE LET caches == c.d["caches"]
                          asked == IF kw.name = <<>> THEN "default" ELSE kw.name[1]
                      IN  IF asked = "default" /\ ~HasKey(c, "default")
                          THEN Fails("KeyError", <<asked>>, DOMAIN caches.d, opened)
                          ELSE LET name == IF asked = "default"
                                           THEN c.d["default"].v ELSE asked
                               IN  IF ~HasKey(caches, name)
                                   THEN Fails("KeyError", <<name>>, DOMAIN caches.d, opened)
                                   ELSE Made(ClassOf(caches.d[name]), opened)

\* new_object_store(**kw)
NewObjectStore(kw, loaded, client, opened) ==
    LET r == Resolve(kw, loaded, opened)
    IN  IF ~r.ok THEN r
        ELSE IF r.store = <<>> THEN Fails("KeyError", <<>>, {}, opened)
        ELSE IF r.store[1] \notin Classes THEN Fails("AttributeError", <<>>, {}, opened)
        ELSE Construct(r.store[1], kw.bucket, kw.prefix, client, opened)

\* h.sub(*args, **kw): S3 and Redis stores without class_ and name build the
\* store themselves and hand their client on; otherwise ObjectStore.sub
\* calls new_object_store with the bucket, the joined prefix and kw
SubWith(h, args, kw, loaded, opened) ==
    IF h.cls \in {"S3ObjectStore", "RedisObjectStore"} /\ kw.class_ = <<>> /\ kw.name = <<>>
    THEN Construct(h.cls, h.bucket, SubPrefix(h, args), h.client, opened)
    ELSE NewObjectStore([name |-> kw.name, config |-> <<>>,
                         class_ |-> IF kw.class_ = <<>> /\ kw.name = <<>>
                                    THEN <<h.cls>> ELSE kw.class_,
                         bucket |-> h.bucket, prefix |-> JoinPath(h.prefix, args)],
                        loaded, 0, opened)

\* what get_config() returns in this process
Loaded == conf.res.val

NoCall ==
    [op |-> "none", kw |-> <<>>, parent |-> NoHandle, args |-> <<>>,
     before |-> 0, res |-> Made(NoHandle, 0)]

FactoryInit ==
    /\ handles = {}
    /\ shelf = EmptyMap
    /\ files = EmptyMap
    /\ dirs = {<<>>}
    /\ s3 = EmptyMap
    /\ redis = EmptyMap
    /\ written = EmptyMap
    /\ last = NoLast
    /\ queue = NoQueue
    /\ qlog = <<>>
    /\ fifo = <<>>
    /\ waiter = NoWaiter
    /\ callers = NoCallers
    /\ \E c \in FactoryConfigs :
           conf = [files |-> <<c>>, called |-> TRUE, res |-> GetConfig(<<c>>)]
    /\ built = NoCall
    /\ redis_pools = EmptyMap
    /\ threads = NoThreads
    /\ tm = NoTask
    /\ cache = NoCache
    /\ asst = NoAsst

\* the stores after a call of the factory
Kept(res) == IF res.ok THEN handles \cup {res.store} ELSE handles

FactoryNew(kw) ==
    /\ Cardinality(handles) < MaxStores
    /\ LET res == NewObjectStore(kw, Loaded, 0, built.res.opened)
       IN  /\ built' = [op |-> "new", kw |-> kw, parent |-> NoHandle, args |-> <<>>,
                        before |-> built.res.opened, res |-> res]
           /\ handles' = Kept(res)
    /\ UNCHANGED <<storeVars, written, last, queue, qlog, fifo,
                   waiter, callers, conf, redis_pools, threads, tm, cache,
                   asst>>

FactorySub(h, args, kw) ==
    /\ Cardinality(handles) < MaxStores
    /\ kw.class_ # <<>> \/ kw.name # <<>> \/ h.cls \in {"S3ObjectStore", "RedisObjectStore"}
    /\ JoinPath(h.prefix, args) \in Prefixes
    /\ LET res == SubWith(h, args, kw, Loaded, built.res.opened)
       IN  /\ built' = [op |-> "sub", kw |-> kw, parent |-> h, args |-> args,
                        before |-> built.res.opened, res |-> res]
           /\ handles' = Kept(res)
    /\ UNCHANGED <<storeVars, written, last, queue, qlog, fifo,
                   waiter, callers, conf, redis_pools, threads, tm, cache,
                   asst>>

FactoryNext ==
    \/ \E name \in ProfileNames, config \in {<<>>} \cup {<<c>> : c \in FactoryConfigs},
          class_ \in {<<>>} \cup {<<c>> : c \in Classes}, bucket \in Buckets :
           FactoryNew([name |-> name, config |-> config, class_ |-> class_,
                       bucket |-> bucket, prefix |-> <<>>])
    \/ \E h \in handles, args \in {<<>>, <<kA>>},
          class_ \in {<<>>} \cup {<<c>> : c \in Classes}, name \in {<<>>, <<"p">>} :
           FactorySub(h, args, [class_ |-> class_, name |-> name])

SpecFactory == FactoryInit /\ [][FactoryNext]_vars

\* C16, as claimed: no store has a bucket with an underscore, and a
\* construction with such a bucket fails with the invalid-bucket error.
C16_NoUnderscore ==
    /\ \A h \in handles : ~Underscore(h.bucket)
    /\ built.op = "new" /\ Underscore(built.kw.bucket) =>
           /\ ~built.res.ok
           /\ built.kw.class_ # <<>> /\ built.kw.config = <<>> =>
                  built.res.err = "ValueError"

\* the configuration a call looks its profile up in, as <<config>>
LookedUp(kw) ==
    IF kw.config # <<>> THEN kw.config
    ELSE IF kw.class_ # <<>> THEN <<>>
    ELSE <<Loaded>>

\* the names of the profiles of a configuration
Profiles(c) == IF HasKey(c, "caches") THEN DOMAIN c.d["caches"].d ELSE {}

\* C17, as claimed: a name that is not among the profiles of the
\* configuration fails with an error that names it and lists the profiles,
\* a profile without class_ fails with an error, and neither makes a store.
C17_UnknownProfile ==
    built.op = "new" /\ built.kw.name \notin {<<>>, <<"default">>}
    /\ LookedUp(built.kw) # <<>> /\ ~HasKey(LookedUp(built.kw)[1], "class_") =>
        LET c == LookedUp(built.kw)[1]
            name == built.kw.name[1]
        IN  /\ name \notin Profiles(c) =>
                  /\ ~built.res.ok
                  /\ built.res.err = "KeyError"
                  /\ built.res.named = <<name>>
                  /\ built.res.keys = Profiles(c)
            /\ name \in Profiles(c) /\ ClassOf(c.d["caches"].d[name]) = <<>> =>
                  ~built.res.ok /\ built.res.err = "KeyError"

\* C19, as claimed: sub without class_ and name on an S3 or Redis store gives
\* a store of the same class with the parent's client and opens no client;
\* sub with the class_ of another backend gives a store of that class with
\* the parent's bucket and the joined prefix.
C19_SubClient ==
    built.op = "sub" /\ built.parent.cls \in {"S3ObjectStore", "RedisObjectStore"} =>
        /\ built.kw.class_ = <<>> /\ built.kw.name = <<>> =>
              /\ built.res.ok
              /\ built.res.store.cls = built.parent.cls
              /\ built.res.store.client = built.parent.client
              /\ built.res.opened = built.before
        /\ built.kw.class_ # <<>> /\ built.kw.class_ # <<built.parent.cls>> =>
              /\ built.res.ok
              /\ built.res.store.cls = built.kw.class_[1]
              /\ built.res.store.bucket = built.parent.bucket
              /\ built.res.store.prefix = JoinPath(built.parent.prefix, built.args)

(***************************************************************************)
(* connect_redis and the module's dict redis_pools, called from several    *)
(* threads.  The function takes no lock, so a thread can be switched out   *)
(* between the membership test, the call of ConnectionPool.from_url, the   *)
(* assignment to redis_pools[url] and the final read of redis_pools[url].  *)
(***************************************************************************)
Threads == 1..MaxThreads
Urls == {"redis://a", "redis://b"}

NoPool == [url |-> "", by |-> 0, n |-> 0]

\* a thread outside connect_redis that has not called it yet
IdleThread ==
    [pc |-> "idle", url |-> "", pool |-> NoPool, client |-> NoPool,
     made |-> {}, calls |-> 0]

\* redis.ConnectionPool.from_url(url): a pool that did not exist before
FromUrl(t, url) == [url |-> url, by |-> t, n |-> Cardinality(threads[t].made) + 1]

\* every pool created so far for this URL, by any thread
PoolsMade(url) == {p \in UNION {threads[t].made : t \in Threads} : p.url = url}

PoolInit ==
    /\ handles = {}
    /\ shelf = EmptyMap
    /\ files = EmptyMap
    /\ dirs = {<<>>}
    /\ s3 = EmptyMap
    /\ redis = EmptyMap
    /\ written = EmptyMap
    /\ last = NoLast
    /\ queue = NoQueue
    /\ qlog = <<>>
    /\ fifo = <<>>
    /\ waiter = NoWaiter
    /\ callers = NoCallers
    /\ conf = NoConf
    /\ built = NoBuilt
    /\ redis_pools = EmptyMap
    /\ threads = [t \in Threads |-> IdleThread]
    /\ tm = NoTask
    /\ cache = NoCache
    /\ asst = NoAsst

PoolRest ==
    UNCHANGED <<handles, shelf, files, dirs, s3, redis, written, last, queue,
                qlog, fifo, waiter, callers, conf, built, tm, cache,
                   asst>>

\* a thread enters connect_redis(url)
ConnectCall(t, url) ==
    /\ threads[t].pc = "idle"
    /\ threads[t].calls < MaxCalls
    /\ threads' = [threads EXCEPT ![t].pc = "test", ![t].url = url,
                                  ![t].client = NoPool,
                                  ![t].calls = @ + 1]
    /\ UNCHANGED redis_pools
    /\ PoolRest

\* if url not in redis_pools
ConnectTest(t) ==
    /\ threads[t].pc = "test"
    /\ threads' = [threads EXCEPT ![t].pc =
                       IF threads[t].url \notin DOMAIN redis_pools
                       THEN "make" ELSE "use"]
    /\ UNCHANGED redis_pools
    /\ PoolRest

\* the right-hand side redis.ConnectionPool.from_url(url)
ConnectMake(t) ==
    /\ threads[t].pc = "make"
    /\ LET pool == FromUrl(t, threads[t].url)
       IN  threads' = [threads EXCEPT ![t].pc = "store", ![t].pool = pool,
                                      ![t].made = @ \cup {pool}]
    /\ UNCHANGED redis_pools
    /\ PoolRest

\* the assignment redis_pools[url] = <the new pool>
ConnectStore(t) ==
    /\ threads[t].pc = "store"
    /\ redis_pools' = MapPut(redis_pools, threads[t].url, threads[t].pool)
    /\ threads' = [threads EXCEPT ![t].pc = "use"]
    /\ PoolRest

\* return StrictRedis(..., connection_pool=redis_pools[url])
ConnectReturn(t) ==
    /\ threads[t].pc = "use"
    /\ threads' = [threads EXCEPT ![t].pc = "idle",
                                  ![t].client = redis_pools[threads[t].url]]
    /\ UNCHANGED redis_pools
    /\ PoolRest

PoolNext ==
    \/ \E t \in Threads, url \in Urls : ConnectCall(t, url)
    \/ \E t \in Threads : ConnectTest(t)
    \/ \E t \in Threads : ConnectMake(t)
    \/ \E t \in Threads : ConnectStore(t)
    \/ \E t \in Threads : ConnectReturn(t)

SpecPool == PoolInit /\ [][PoolNext]_vars

\* C20, as claimed: at most one connection pool is ever created for a URL,
\* also when several threads call connect_redis with it at the same time,
\* and the pool a finished call returned for a URL is the one registered
\* for it (a registered pool is never replaced, later calls use it).
C20_OnePoolPerUrl ==
    /\ \A url \in Urls : Cardinality(PoolsMade(url)) <= 1
    /\ \A t \in Threads :
           threads[t].client # NoPool =>
               threads[t].client = redis_pools[threads[t].url]

(***************************************************************************)
(* S3ObjectStore.get on objects of any writer.  The bucket holds what      *)
(* S3ObjectStore.put stores and what other clients of the bucket store     *)
(* with put_object: a body, a content type and a content encoding.         *)
(***************************************************************************)
GzBody == [enc |-> "raw", v |-> VGz]
RawBody == [enc |-> "raw", v |-> VBytes]

\* the content types get() has a branch for
Recognised ==
    {"application/x-gzip", "application/octet-stream", "text/plain; charset=utf-8",
     "text/plain", "application/json", "application/x-pickle"}

S3Object(body, ctype, cenc) ==
    [Body |-> body, ContentType |-> ctype, ContentEncoding |-> cenc]

\* what S3ObjectStore.put stores for the values, and objects of other writers:
\* gzip data marked by the type, by the encoding and by nothing, ascii text,
\* and bytes under a type get() has no branch for (S3's own default type is
\* binary/octet-stream)
S3Objects ==
    {S3Object(ToBytes(v).b, ToBytes(v).ctype, "") : v \in Values}
    \cup {S3Object(GzBody, "application/x-gzip", ""),
          S3Object(GzBody, "application/octet-stream", "gzip"),
          S3Object(GzBody, "application/octet-stream", ""),
          S3Object([enc |-> "ascii", v |-> VStr], "text/plain", ""),
          S3Object(RawBody, "image/png", ""),
          S3Object(RawBody, "binary/octet-stream", "")}

DecodeKeys == {kA, kB, kAXgz}

DecodeStore == NewStore("S3ObjectStore", Bucket, <<>>)

DecodeInit ==
    /\ StoresIdle(DecodeStore)
    /\ ExtIdle

\* client.put_object(Bucket=, Key=, Body=, ContentType=, ContentEncoding=)
S3PutObject(h, key, object) ==
    /\ s3' = MapPut(s3, S3Key(h, key), object)
    /\ UNCHANGED <<handles, shelf, files, dirs, redis, written, last, queue,
                   qlog, fifo, extVars>>

DecodeNext ==
    \/ \E h \in handles, key \in DecodeKeys, object \in S3Objects :
           S3PutObject(h, key, object)
    \/ \E h \in handles, key \in DecodeKeys : Get(h, key)

SpecDecode == DecodeInit /\ [][DecodeNext]_vars

\* the object is marked as gzip: by its type, its encoding, or the key's suffix
GzipMarked(r, key) ==
    \/ r.ContentType = "application/x-gzip"
    \/ r.ContentEncoding = "gzip"
    \/ r.ContentType = "application/octet-stream" /\ EndsWith(key, GzSuffix)

\* C21, as claimed: get of an object whose content type is outside the
\* recognised set fails with the unsupported-content-type error (IOError),
\* and get of an object marked as gzip that holds gzip data returns the
\* decompressed payload.
C21_DecodeByDescriptor ==
    \A h \in handles, key \in DecodeKeys :
        S3Key(h, key) \in DOMAIN s3 =>
            LET r == s3[S3Key(h, key)]
            IN  /\ r.ContentType \notin Recognised /\ r.ContentEncoding # "gzip" =>
                       S3Get(h, key) = Raise("IOError")
                /\ GzipMarked(r, S3Key(h, key)[2]) /\ r.Body = GzBody =>
                       S3Get(h, key) = Ok(VBytes)

(***************************************************************************)
(* _to_bytes with sizes.  Text is a sequence of code points, bytes a       *)
(* sequence of byte values, so that the size returned can be compared with *)
(* the number of bytes returned.                                           *)
(***************************************************************************)
\* the code points of "a" and of "e" with an acute accent, and two byte values
CodePoints == {97, 233}
ByteValues == {0, 97}

\* the sequences over S of at most MaxLen elements
UpTo(S) == UNION {[1..n -> S] : n \in 0..MaxLen}

\* str.encode("utf8") of one code point below 2048
Utf8Char(c) == IF c < 128 THEN <<c>> ELSE <<192 + (c \div 64), 128 + (c % 64)>>

RECURSIVE Utf8(_)
\* str.encode("utf8")
Utf8(s) == IF s = <<>> THEN <<>> ELSE Utf8Char(Head(s)) \o Utf8(Tail(s))

RECURSIVE JsonItems(_)
\* the items of a list as json.dumps writes them: digits separated by ", "
JsonItems(items) ==
    IF items = <<>> THEN <<>>
    ELSE IF Len(items) = 1 THEN <<48 + items[1]>>
    ELSE <<48 + items[1], 44, 32>> \o JsonItems(Tail(items))

\* json.dumps(o) of a list of digits: "[1, 2]"
JsonDumps(o) == <<91>> \o JsonItems(o.data) \o <<93>>

\* pickle.dumps(o): the protocol header, the payload, the STOP opcode
PickleDumps(o) == <<128, 4>> \o o.data \o <<46>>

\* the objects handed to _to_bytes: a path to a file, text, bytes, a BytesIO,
\* an open file (text or binary), a list (JSON) and a set (not JSON)
Objects ==
    {[t |-> "PosixPath", data |-> d, mime |-> m] :
        d \in UpTo(ByteValues), m \in {"text/plain", "image/png"}}
    \cup {[t |-> "str", data |-> s] : s \in UpTo(CodePoints)}
    \cup {[t |-> "bytes", data |-> d] : d \in UpTo(ByteValues)}
    \cup {[t |-> "BytesIO", data |-> d] : d \in UpTo(ByteValues)}
    \cup {[t |-> "TextIO", data |-> s] : s \in UpTo(CodePoints)}
    \cup {[t |-> "BufferedReader", data |-> d] : d \in UpTo(ByteValues)}
    \cup {[t |-> "list", data |-> l] : l \in UpTo({1, 2})}
    \cup {[t |-> "set", data |-> l] : l \in {<<>>, <<1>>, <<2>>, <<1, 2>>}}

\* o.read() of an open file: its text or its bytes
Read(o) ==
    IF o.t = "TextIO" THEN [t |-> "str", data |-> o.data]
    ELSE [t |-> "bytes", data |-> o.data]

Encoded(kind, data, size, ctype) ==
    [b |-> [kind |-> kind, data |-> data], size |-> size, ctype |-> ctype, ext |-> ""]

RECURSIVE ToBytesTuple(_)
\* _to_bytes(o): (bytes, size, content type, extension)
ToBytesTuple(o) ==
    IF o.t = "PosixPath"
    THEN Encoded("bytes", o.data, Len(o.data), o.mime)
    ELSE IF o.t = "str"
    THEN Encoded("bytes", Utf8(o.data), Len(o.data), "text/plain; charset=utf-8")
    ELSE IF o.t = "bytes"
    THEN Encoded("bytes", o.data, Len(o.data), "application/octet-stream")
    ELSE IF o.t = "BytesIO"
    THEN Encoded("stream", o.data, Len(o.data), "application/octet-stream")
    ELSE IF o.t \in {"TextIO", "BufferedReader"}
    THEN ToBytesTuple(Read(o))
    ELSE IF o.t = "list"
    THEN Encoded("bytes", JsonDumps(o), Len(JsonDumps(o)), "application/json")
    ELSE Encoded("bytes", PickleDumps(o), Len(PickleDumps(o)), "application/x-pickle")

\* no store, no queue, no caller
NoStores ==
    /\ handles = {}
    /\ shelf = EmptyMap
    /\ files = EmptyMap
    /\ dirs = {<<>>}
    /\ s3 = EmptyMap
    /\ redis = EmptyMap
    /\ written = EmptyMap
    /\ last = NoLast
    /\ queue = NoQueue
    /\ qlog = <<>>
    /\ fifo = <<>>
    /\ ExtIdle

EncodeInit == NoStores

\* a call _to_bytes(o); last keeps the argument and what was returned
ToBytesCall(o) ==
    /\ last' = [op |-> "_to_bytes", arg |-> o, res |-> ToBytesTuple(o)]
    /\ UNCHANGED <<handles, storeVars, written, queue, qlog, fifo, extVars>>

EncodeNext == \E o \in Objects : ToBytesCall(o)

SpecEncode == EncodeInit /\ [][EncodeNext]_vars

\* the content type of the first rule that matches o, in the order path, text,
\* bytes, stream, JSON, fallback; a stream that is no buffer has the type of
\* what is read from it
RuleType(o) ==
    CASE o.t = "PosixPath" -> o.mime
      [] o.t = "str" -> "text/plain; charset=utf-8"
      [] o.t = "bytes" -> "application/octet-stream"
      [] o.t = "BytesIO" -> "application/octet-stream"
      [] o.t = "TextIO" -> "text/plain; charset=utf-8"
      [] o.t = "BufferedReader" -> "application/octet-stream"
      [] o.t = "list" -> "application/json"
      [] OTHER -> "application/x-pickle"

\* C22, as claimed: _to_bytes returns the content type of the first matching
\* rule, and a size equal to the number of bytes it returns.
C22_ToBytesOrder ==
    last.op = "_to_bytes" =>
        /\ last.res.ctype = RuleType(last.arg)
        /\ last.res.size = Len(last.res.b.data)

(***************************************************************************)
(* RedisSet with scores: add(value, score) is ZADD, ziter is ZRANGE 0 -1.  *)
(* A sorted set is [t |-> "zset", v |-> member -> score].  A key holds one  *)
(* type: a command for another type is refused with WRONGTYPE.             *)
(***************************************************************************)
Scores == {1, 2}
ZValues == {V1, V2, V3}

\* the order of the pickled members as byte strings: that of the numbers
ByteRank(b) == CASE b.v = V1 -> 1 [] b.v = V2 -> 2 [] OTHER -> 3

TypeAt(r, k) == IF k \in DOMAIN r THEN r[k].t ELSE "none"

ScoresAt(r, k) == IF k \in DOMAIN r THEN r[k].v ELSE EmptyMap

\* a range that orders the members by their bytes alone
ZRangeByMember(r, k) ==
    IF TypeAt(r, k) \notin {"none", "zset"} THEN [ok |-> FALSE, seq |-> <<>>]
    ELSE LET z == ScoresAt(r, k)
             n == Cardinality(DOMAIN z)
         IN  [ok |-> TRUE,
              seq |-> CHOOSE s \in [1..n -> DOMAIN z] :
                          \A i, j \in 1..n : i < j => ByteRank(s[i]) < ByteRank(s[j])]

\* ZADD key score b: sets the score of b, whether b is a member or not
ZAdd(r, k, b, score) ==
    IF TypeAt(r, k) \notin {"none", "zset"} THEN [ok |-> FALSE, r |-> r]
    ELSE [ok |-> TRUE,
          r |-> MapPut(r, k, [t |-> "zset", v |-> MapPut(ScoresAt(r, k), b, score)])]

\* ZRANGE key 0 -1: every member, by score and then by its bytes
ZRange(r, k) ==
    IF TypeAt(r, k) \notin {"none", "zset"} THEN [ok |-> FALSE, seq |-> <<>>]
    ELSE LET z == ScoresAt(r, k)
             n == Cardinality(DOMAIN z)
         IN  [ok |-> TRUE,
              seq |-> CHOOSE s \in [1..n -> DOMAIN z] :
                          \A i, j \in 1..n : i < j =>
                              \/ z[s[i]] < z[s[j]]
                              \/ z[s[i]] = z[s[j]] /\ ByteRank(s[i]) < ByteRank(s[j])]

\* SADD as the server runs it on a key of any type
SAddTyped(r, k, b) ==
    IF TypeAt(r, k) \notin {"none", "set"} THEN [ok |-> FALSE, r |-> r]
    ELSE [ok |-> TRUE, r |-> SAdd(r, k, b).r]

\* RedisSet.add(value, score): score is <<>> for None
RedisSetAddScore(set, value, score) ==
    IF score # <<>> THEN ZAdd(redis, set.prefix, Pickle(value), score[1])
    ELSE SAddTyped(redis, set.prefix, Pickle(value))

\* RedisSet.ziter(): the members unpickled, in the order of the range
RedisSetZiter(set) ==
    LET o == ZRange(redis, set.prefix)
    IN  [ok |-> o.ok, seq |-> [i \in 1..Len(o.seq) |-> Unpickle(o.seq[i])]]

ZSetInit ==
    /\ StoresIdle(SetStore)
    /\ ExtIdle

\* a call of add; qlog keeps the calls and whether they raised
ZSetAdd(value, score) ==
    /\ Len(qlog) < MaxAdds
    /\ LET o == RedisSetAddScore(ThisSet, value, score)
       IN  /\ redis' = o.r
           /\ qlog' = Append(qlog, [op |-> "add", val |-> value, score |-> score,
                                    ok |-> o.ok])
    /\ UNCHANGED <<handles, shelf, files, dirs, s3, written, last, queue, fifo, extVars>>

\* a call of ziter, run to its end
ZSetZiter ==
    /\ RedisSetZiter(ThisSet).ok \in BOOLEAN
    /\ UNCHANGED vars

ZSetNext ==
    \/ \E value \in ZValues, score \in Scores : ZSetAdd(value, <<score>>)
    \/ ZSetAdd(V1, <<>>)
    \/ ZSetZiter

SpecZSet == ZSetInit /\ [][ZSetNext]_vars

\* the calls of add with a score that did not raise
ScoredAdds == {i \in 1..Len(qlog) : qlog[i].score # <<>> /\ qlog[i].ok}

\* the score of the last add of value
LastScore(value) ==
    LET i == CHOOSE i \in ScoredAdds :
                 /\ qlog[i].val = value
                 /\ \A j \in ScoredAdds : qlog[j].val = value => j <= i
    IN  qlog[i].score[1]

\* C23: once a member was added with a score, ziter yields exactly the
\* members so added, each once, in ascending order of the score each was
\* added with last.
C23_ZiterAscending ==
    ScoredAdds # {} =>
        LET o == RedisSetZiter(ThisSet)
        IN  /\ o.ok
            /\ {o.seq[i] : i \in 1..Len(o.seq)} = {qlog[i].val : i \in ScoredAdds}
            /\ \A i, j \in 1..Len(o.seq) : i < j =>
                   /\ o.seq[i] # o.seq[j]
                   /\ LastScore(o.seq[i]) <= LastScore(o.seq[j])

\* V1 was added before V2 with the same score and then again with a higher
\* one: it has moved behind V2
C23_Witness ==
    /\ Len(qlog) = 3
    /\ qlog[1] = [op |-> "add", val |-> V1, score |-> <<1>>, ok |-> TRUE]
    /\ qlog[2] = [op |-> "add", val |-> V2, score |-> <<1>>, ok |-> TRUE]
    /\ qlog[3] = [op |-> "add", val |-> V1, score |-> <<2>>, ok |-> TRUE]
    /\ RedisSetZiter(ThisSet).seq = <<V2, V1>>

(***************************************************************************)
(* ObjectSet, every operation, one caller: the entry at the set's key may  *)
(* hold a set, or a value that store.put(key, value) left there.           *)
(***************************************************************************)
Bool(b) == [t |-> "bool", d |-> IF b THEN "True" ELSE "False"]
IntOf(n) == [t |-> "int", d |-> ToString(n)]

\* the payloads put at the key: values that are no sets, and sets
Payloads == Values \cup {SetValue(m) : m \in SUBSET Pushed}

\* list(o): the elements iterating over a stored value yields
Elements(o) ==
    CASE o.t = "set" -> o.d
      [] o.t = "str" -> {[t |-> "str", d |-> "t"], [t |-> "str", d |-> "e"],
                         [t |-> "str", d |-> "x"]}
      [] o.t = "bytes" -> {IntOf(114), IntOf(97), IntOf(119)}
      [] o.t \in {"tuple", "list"} -> {V1, V2}
      [] OTHER -> {}

\* ObjectSet.add(value): what it returns or raises, and the stores after it
ObjectSetAdd(h, key, value) ==
    LET g == ObjectSetGet(h, key)
    IN  IF ~g.ok THEN Outcome(g, Stores)
        ELSE PutOf(h, key, ObjectSetAdded(g.val, value))

\* ObjectSet.remove(value): set.remove raises KeyError for a value not in it
ObjectSetRemove(h, key, value) ==
    LET g == ObjectSetGet(h, key)
    IN  IF ~g.ok THEN Outcome(g, Stores)
        ELSE IF value \notin g.val.d THEN Outcome(Raise("KeyError"), Stores)
        ELSE PutOf(h, key, SetValue(g.val.d \ {value}))

\* ObjectSet.is_member(value): value in self.get()
ObjectSetIsMember(h, key, value) ==
    LET g == ObjectSetGet(h, key)
    IN  IF ~g.ok THEN g ELSE Ok(Bool(value \in g.val.d))

\* ObjectSet.__len__: len(self.get())
ObjectSetLen(h, key) ==
    LET g == ObjectSetGet(h, key)
    IN  IF ~g.ok THEN g ELSE Ok(IntOf(Cardinality(g.val.d)))

\* ObjectSet.__iter__: iter(self.get())
ObjectSetIter(h, key) == ObjectSetGet(h, key)

\* ObjectSet.rand_member(): random.choice(list(self.os.get(self.key))), the
\* results it can have
RandMember(h, key) ==
    LET g == GetOf(h, key)
    IN  IF ~g.ok THEN {g}
        ELSE IF Elements(g.val) = {} THEN {Raise("IndexError")}
        ELSE {Ok(e) : e \in Elements(g.val)}

SetOpsInit ==
    /\ \E cls \in ObjectSetClasses : StoresIdle(NewStore(cls, Bucket, <<>>))
    /\ ExtIdle

\* what last keeps of a call: the entry before it, the result, the stores kept
Called(op, value, res, st) ==
    [op |-> op, val |-> value, before |-> GetOf(ObjectSetStore, kSet),
     res |-> res, kept |-> (st = Stores), after |-> st]

SetOpsRest == UNCHANGED <<handles, written, queue, qlog, fifo, extVars>>

\* os.put(key, payload) by a user of the store
SetOpsPut(payload) ==
    LET o == PutOf(ObjectSetStore, kSet, payload)
    IN  /\ SetStores(o.st)
        /\ last' = Called("put", payload, o.res, o.st)
        /\ SetOpsRest

SetOpsAdd(value) ==
    LET o == ObjectSetAdd(ObjectSetStore, kSet, value)
    IN  /\ SetStores(o.st)
        /\ last' = Called("add", value, o.res, o.st)
        /\ SetOpsRest

SetOpsRemove(value) ==
    LET o == ObjectSetRemove(ObjectSetStore, kSet, value)
    IN  /\ SetStores(o.st)
        /\ last' = Called("remove", value, o.res, o.st)
        /\ SetOpsRest

SetOpsIsMember(value) ==
    /\ last' = Called("is_member", value, ObjectSetIsMember(ObjectSetStore, kSet, value),
                      Stores)
    /\ UNCHANGED storeVars
    /\ SetOpsRest

SetOpsRandMember ==
    /\ \E res \in RandMember(ObjectSetStore, kSet) :
           last' = Called("rand_member", NoValue, res, Stores)
    /\ UNCHANGED storeVars
    /\ SetOpsRest

\* get(), len() and iteration
SetOpsRead(op) ==
    /\ last' = Called(op, NoValue,
                      CASE op = "get" -> ObjectSetGet(ObjectSetStore, kSet)
                        [] op = "len" -> ObjectSetLen(ObjectSetStore, kSet)
                        [] OTHER -> ObjectSetIter(ObjectSetStore, kSet),
                      Stores)
    /\ UNCHANGED storeVars
    /\ SetOpsRest

\* the entry is deleted
SetOpsDelete ==
    LET o == DeleteOf(ObjectSetStore, kSet)
    IN  /\ SetStores(o.st)
        /\ last' = Called("delete", NoValue, o.res, o.st)
        /\ SetOpsRest

SetOpsNext ==
    \/ \E payload \in Payloads : SetOpsPut(payload)
    \/ \E value \in Pushed : SetOpsAdd(value)
    \/ \E value \in Pushed : SetOpsRemove(value)
    \/ \E value \in Pushed : SetOpsIsMember(value)
    \/ SetOpsRandMember
    \/ \E op \in {"get", "len", "iter"} : SetOpsRead(op)
    \/ SetOpsDelete

SpecSetOps == SetOpsInit /\ [][SetOpsNext]_vars

SetOperations == {"add", "remove", "is_member", "rand_member", "get", "len", "iter"}

\* C24, as claimed: an operation on an entry that is not a set raises
\* TypeError and leaves the entry as it was; on an absent key add stores the
\* value alone, is_member is false, get is the empty set and len is 0.
C24_TypeMismatch ==
    last.op \in SetOperations =>
        /\ last.before.ok /\ last.before.val.t # "set" =>
               last.res = Raise("TypeError") /\ last.kept
        /\ last.before = Raise("KeyError") =>
               /\ last.op = "add" =>
                      /\ last.res.ok
                      /\ ObjectSetGet(ObjectSetStore, kSet) = Ok(SetValue({last.val}))
               /\ last.op = "is_member" => last.res = Ok(Bool(FALSE))
               /\ last.op = "get" => last.res = Ok(SetValue({}))
               /\ last.op = "len" => last.res = Ok(IntOf(0))

(***************************************************************************)
(* TaskManager: the current state, the attributes the tools set, and       *)
(* Tool.run_tool, through which the assistant calls the tools.             *)
(***************************************************************************)
None == "None"

\* StepState.tool_methods of each state class
ToolMethods(state) ==
    CASE state = "StartTaskState" -> {"start_task"}
      [] state = "PlanStepState" -> {"next_step"}
      [] state = "CodeCommandState" ->
             {"step_complete", "step_failed", "execute_code", "shell", "read_file",
              "write_file"}
      [] state = "ResearchState" ->
             {"step_complete", "step_failed", "web_search", "store_document",
              "search_documents", "wikipedia_search"}
      [] state \in {"AnalysisState", "EvaluateState"} ->
             {"step_complete", "step_failed", "read_file", "search_documents"}
      [] OTHER -> {}

\* a table that sends every category to the state of code execution
NextStepsAllCode(category) ==
    IF category = "done" THEN None ELSE "CodeCommandState"

\* TaskManager.next_steps[category]
NextSteps(category) ==
    CASE category = "execution" -> "CodeCommandState"
      [] category = "research" -> "ResearchState"
      [] category = "analysis" -> "AnalysisState"
      [] category = "evaluation" -> "EvaluateState"
      [] category = "done" -> None

Categories == {"execution", "research", "analysis", "evaluation", "done"}

\* the tools called and the arguments they are called with; an argument not
\* given is None
ToolCalls ==
    {[name |-> "start_task", a |-> "analysis", b |-> p] : p \in {"plan", "plan2"}}
    \cup {[name |-> "next_step", a |-> c, b |-> "instructions"] :
             c \in Categories \cup {"other"}}
    \cup {[name |-> n, a |-> "note", b |-> p] :
             n \in {"step_complete", "step_failed"}, p \in {None, "plan2"}}
    \cup {[name |-> "task_solved", a |-> "note", b |-> "solution"],
          [name |-> "task_done", a |-> None, b |-> None]}

NoToolCall == [name |-> None, a |-> None, b |-> None, form |-> None]

\* TaskManager.__init__: next_state(StartTaskState); the class attributes
NewTaskManager ==
    [current_state |-> "StartTaskState", include_methods |-> ToolMethods("StartTaskState"),
     task_analysis |-> None, plan |-> None, solution |-> None, step_type |-> None,
     step_instructions |-> <<"">>,
     call |-> NoToolCall, before |-> None, old |-> <<None, None>>,
     entered |-> FALSE, err |-> ""]

\* next_state(state): a state that is None has no tool_methods
NextState(t, state) ==
    IF state = None
    THEN [t EXCEPT !.current_state = None, !.err = "AttributeError"]
    ELSE [t EXCEPT !.current_state = state, !.include_methods = ToolMethods(state)]

StartTask(t, analysis, plan) ==
    NextState([t EXCEPT !.task_analysis = analysis, !.plan = plan], "PlanStepState")

NextStep(t, category, detailed_instructions) ==
    LET t1 == [t EXCEPT !.step_instructions = Append(@, detailed_instructions)]
    IN  IF category \notin Categories THEN [t1 EXCEPT !.err = "ValueError"]
        ELSE NextState([t1 EXCEPT !.step_type = category], NextSteps(category))

StepComplete(t, use_note, updated_plan) ==
    NextState([t EXCEPT !.step_instructions = Append(@, use_note),
                        !.plan = IF updated_plan # None THEN updated_plan ELSE @],
              "PlanStepState")

StepFailed(t, reason, updated_plan) ==
    NextState([t EXCEPT !.step_instructions = Append(@, "ERROR! " \o reason),
                        !.plan = IF updated_plan # None THEN updated_plan ELSE @],
              "PlanStepState")

TaskSolved(t, use_note, solution) ==
    NextState([t EXCEPT !.step_instructions = Append(@, use_note),
                        !.solution = solution],
              "PlanStepState")

TaskDone(t) == NextState(t, "StartTaskState")

\* Tool.run_tool(name, args): getattr, json.loads(args), f(**args).  args is
\* JSON text, or a dict, which json.loads refuses with TypeError
RunToolOf(t, c) ==
    LET t0 == [t EXCEPT !.call = c, !.before = t.current_state,
                        !.old = <<t.task_analysis, t.plan>>,
                        !.entered = (c.form = "json"), !.err = ""]
    IN  IF c.form # "json" THEN [t0 EXCEPT !.err = "TypeError"]
        ELSE CASE c.name = "start_task" -> StartTask(t0, c.a, c.b)
               [] c.name = "next_step" -> NextStep(t0, c.a, c.b)
               [] c.name = "step_complete" -> StepComplete(t0, c.a, c.b)
               [] c.name = "step_failed" -> StepFailed(t0, c.a, c.b)
               [] c.name = "task_solved" -> TaskSolved(t0, c.a, c.b)
               [] c.name = "task_done" -> TaskDone(t0)

TaskInit ==
    /\ handles = {}
    /\ shelf = EmptyMap
    /\ files = EmptyMap
    /\ dirs = {<<>>}
    /\ s3 = EmptyMap
    /\ redis = EmptyMap
    /\ written = EmptyMap
    /\ last = NoLast
    /\ queue = NoQueue
    /\ qlog = <<>>
    /\ fifo = <<>>
    /\ waiter = NoWaiter
    /\ callers = NoCallers
    /\ conf = NoConf
    /\ built = NoBuilt
    /\ redis_pools = EmptyMap
    /\ threads = NoThreads
    /\ tm = NewTaskManager
    /\ cache = NoCache
    /\ asst = NoAsst

\* history kept in tm: call, the last call of run_tool; before and old, the
\* state, the analysis and the plan it found; entered, whether the tool's
\* method was called; err, what the call raised
\* a call of run_tool; a manager whose state is None takes no more calls
RunTool(c, form) ==
    /\ tm.current_state # None
    /\ Len(tm.step_instructions) <= MaxSteps
    /\ tm' = RunToolOf(tm, [name |-> c.name, a |-> c.a, b |-> c.b, form |-> form])
    /\ UNCHANGED <<handles, storeVars, written, last, queue, qlog, fifo, waiter,
                   callers, conf, built, redis_pools, threads, cache, asst>>

TaskNext == \E c \in ToolCalls, form \in {"json", "dict"} : RunTool(c, form)

SpecTask == TaskInit /\ [][TaskNext]_vars

\* C25: the manager starts in StartTaskState; a start_task that ran has led
\* to PlanStepState, a next_step of category execution, research or analysis
\* to CodeCommandState, ResearchState or AnalysisState, and a step_complete
\* or step_failed back to PlanStepState.
C25_Transitions ==
    /\ tm.call = NoToolCall => tm.current_state = "StartTaskState"
    /\ tm.entered =>
           /\ tm.call.name = "start_task" => tm.current_state = "PlanStepState"
           /\ tm.call.name = "next_step" =>
                  /\ tm.call.a = "execution" => tm.current_state = "CodeCommandState"
                  /\ tm.call.a = "research" => tm.current_state = "ResearchState"
                  /\ tm.call.a = "analysis" => tm.current_state = "AnalysisState"
           /\ tm.call.name \in {"step_complete", "step_failed"} =>
                  tm.current_state = "PlanStepState"

\* the test's path: start_task, next_step to research, step_failed, and
\* next_step to analysis
C25_Witness ==
    /\ tm.entered
    /\ tm.call.name = "next_step" /\ tm.call.a = "analysis"
    /\ tm.before = "PlanStepState"
    /\ tm.current_state = "AnalysisState"
    /\ tm.step_instructions = <<"", "instructions", "ERROR! note", "instructions">>
    /\ tm.plan = "plan2"

\* C26, as claimed: run_tool of a tool that is not among the tool_methods of
\* the current state raises NotImplementedError and leaves the state, the
\* task analysis and the plan as they were.
C26_ToolNotInState ==
    tm.call # NoToolCall /\ tm.call.name \notin ToolMethods(tm.before) =>
        /\ tm.err = "NotImplementedError"
        /\ tm.current_state = tm.before
        /\ <<tm.task_analysis, tm.plan>> = tm.old

(***************************************************************************)
(* new_object_store with profiles that carry parameters: the arguments of  *)
(* the constructor are {**cache_config, **kwargs}.  A keyword the caller   *)
(* does not pass is <<>>.                                                  *)
(***************************************************************************)
\* the scalars of the profiles as the strings the constructors get
Chars(v) ==
    CASE v = "pb" -> <<"p", "b">>
      [] v = "qb" -> <<"q", "b">>
      [] v = "a" -> kA
      [] OTHER -> <<>>

\* two profiles with a bucket, one with a prefix, and a default
CfgParams(default) ==
    Nested((<<"default">> :> default)
           @@ (<<"caches", "p", "class_">> :> "LocalObjectStore")
           @@ (<<"caches", "p", "bucket">> :> "pb")
           @@ (<<"caches", "p", "prefix">> :> "a")
           @@ (<<"caches", "q", "class_">> :> "S3ObjectStore")
           @@ (<<"caches", "q", "bucket">> :> "qb"))

\* the default names p, q, or a profile that is not there
ProfileConfigs == {CfgParams("p"), CfgParams("q"), CfgParams("r")}

\* cache_config: the profile the call resolved to, as <<profile>>, or <<>>
\* when cache_config is the keywords themselves
CacheConfig(kw, loaded) ==
    LET config == IF kw.config # <<>> THEN kw.config
                  ELSE IF kw.class_ # <<>> THEN <<>>
                  ELSE <<loaded>>
    IN  IF config = <<>> THEN <<>>
        ELSE IF HasKey(config[1], "class_") THEN config
        ELSE LET asked == IF kw.name = <<>> THEN "default" ELSE kw.name[1]
                 name == IF asked = "default" THEN config[1].d["default"].v ELSE asked
             IN  <<config[1].d["caches"].d[name]>>

\* a merge in which the profile's parameter wins over the caller's
ArgOfProfile(cache_config, kw, k) ==
    IF cache_config # <<>> /\ HasKey(cache_config[1], k)
    THEN <<Chars(cache_config[1].d[k].v)>>
    ELSE kw[k]

\* {**cache_config, **kwargs}[k], as <<value>>, or <<>> when neither has k
ArgOf(cache_config, kw, k) ==
    IF kw[k] # <<>> THEN kw[k]
    ELSE IF cache_config # <<>> /\ HasKey(cache_config[1], k)
    THEN <<Chars(cache_config[1].d[k].v)>>
    ELSE <<>>

\* new_object_store(**kw): the class of cache_config with the merged bucket
\* and prefix; without a bucket "_" in bucket raises TypeError
NewObjectStoreArgs(kw, loaded, opened) ==
    LET r == Resolve(kw, loaded, opened)
    IN  IF ~r.ok THEN r
        ELSE IF r.store = <<>> THEN Fails("KeyError", <<>>, {}, opened)
        ELSE IF r.store[1] \notin Classes THEN Fails("AttributeError", <<>>, {}, opened)
        ELSE LET cc == CacheConfig(kw, loaded)
                 bucket == ArgOf(cc, kw, "bucket")
                 prefix == ArgOf(cc, kw, "prefix")
             IN  IF bucket = <<>> /\ r.store[1] # "RedisObjectStore"
                 THEN Fails("TypeError", <<>>, {}, opened)
                 ELSE Construct(r.store[1],
                                IF bucket = <<>> THEN <<>> ELSE bucket[1],
                                IF prefix = <<>> THEN <<>> ELSE prefix[1],
                                0, opened)

ProfileInit ==
    /\ handles = {}
    /\ shelf = EmptyMap
    /\ files = EmptyMap
    /\ dirs = {<<>>}
    /\ s3 = EmptyMap
    /\ redis = EmptyMap
    /\ written = EmptyMap
    /\ last = NoLast
    /\ queue = NoQueue
    /\ qlog = <<>>
    /\ fifo = <<>>
    /\ waiter = NoWaiter
    /\ callers = NoCallers
    /\ \E c \in ProfileConfigs :
           conf = [files |-> <<c>>, called |-> TRUE, res |-> GetConfig(<<c>>)]
    /\ built = NoCall
    /\ redis_pools = EmptyMap
    /\ threads = NoThreads
    /\ tm = NoTask
    /\ cache = NoCache
    /\ asst = NoAsst

ProfileNew(kw) ==
    /\ Cardinality(handles) < MaxStores
    /\ LET res == NewObjectStoreArgs(kw, Loaded, built.res.opened)
       IN  /\ built' = [op |-> "new", kw |-> kw, parent |-> NoHandle, args |-> <<>>,
                        before |-> built.res.opened, res |-> res]
           /\ handles' = Kept(res)
    /\ UNCHANGED <<storeVars, written, last, queue, qlog, fifo,
                   waiter, callers, conf, redis_pools, threads, tm, cache,
                   asst>>

ProfileNext ==
    \E name \in {<<>>, <<"default">>, <<"p">>, <<"q">>},
       config \in {<<>>} \cup {<<c>> : c \in ProfileConfigs},
       class_ \in {<<>>, <<"FSObjectStore">>},
       bucket \in {<<>>, <<Bucket>>}, prefix \in {<<>>, <<kB>>} :
        ProfileNew([name |-> name, config |-> config, class_ |-> class_,
                    bucket |-> bucket, prefix |-> prefix])

SpecProfile == ProfileInit /\ [][ProfileNext]_vars

\* the profile the default entry of a configuration names, as <<profile>>
DefaultProfile(c) ==
    IF HasKey(c, "default") /\ c.d["default"].v \in Profiles(c)
    THEN <<c.d["caches"].d[c.d["default"].v]>>
    ELSE <<>>

\* C27: a call with a configuration and no name, or the name default, makes
\* a store of the class the default profile names, with the caller's bucket
\* and prefix where the caller passed them and the profile's where not.
C27_DefaultProfile ==
    built.op = "new" /\ built.kw.name \in {<<>>, <<"default">>}
    /\ LookedUp(built.kw) # <<>> /\ DefaultProfile(LookedUp(built.kw)[1]) # <<>> =>
        LET p == DefaultProfile(LookedUp(built.kw)[1])[1]
            kw == built.kw
        IN  /\ built.res.ok
            /\ <<built.res.store.cls>> = ClassOf(p)
            /\ built.res.store.bucket =
                   IF kw.bucket # <<>> THEN kw.bucket[1] ELSE Chars(p.d["bucket"].v)
            /\ built.res.store.prefix =
                   IF kw.prefix # <<>> THEN kw.prefix[1]
                   ELSE IF HasKey(p, "prefix") THEN Chars(p.d["prefix"].v)
                   ELSE <<>>

\* the default profile p has a bucket and a prefix; the caller passed a
\* bucket, no prefix and another class_, and the files were read
C27_Witness ==
    /\ built.op = "new"
    /\ built.kw = [name |-> <<"default">>, config |-> <<>>, class_ |-> <<>>,
                   bucket |-> <<Bucket>>, prefix |-> <<>>]
    /\ Loaded = CfgParams("p")
    /\ built.res.ok
    /\ built.res.store = [cls |-> "LocalObjectStore", bucket |-> Bucket, prefix |-> kA,
                          client |-> 0]

(***************************************************************************)
(* LocalLargeObjectStore: a LocalObjectStore whose put writes a value of   *)
(* more than 10 MiB to a file named by the slug of the key.  The files are  *)
(* kept in `files`, the shelve database in `shelf`.                        *)
(***************************************************************************)
\* 1024 * 1024 * 10
LargeThreshold == 10485760

\* bytes and text of more than 10 MiB
VBigBytes == [t |-> "bytes", d |-> "big"]
VBigStr == [t |-> "str", d |-> "big"]
LargeValues == {VStr, VBytes, VTuple, VBigBytes, VBigStr}
LargeKeys == {kA, kB, kAXgz}

\* the size _to_bytes returns for a value
SizeOf(v) == IF v.d = "big" THEN LargeThreshold + 1 ELSE 3

RECURSIVE Slugify(_)
\* slugify(key): what is no letter or digit becomes a hyphen
Slugify(s) ==
    IF s = <<>> THEN <<>>
    ELSE (IF Head(s) \in {"/", "."} THEN <<"-">> ELSE <<Head(s)>>) \o Slugify(Tail(s))

\* Path(self.path).joinpath(slugify(key))
LargePath(h, key) == <<h.bucket, Slugify(key)>>

\* LocalLargeObjectStore.put(key, data): the file of a large value is
\* written; the method ends there, and nothing is put in the database
LargePut(h, key, data) ==
    IF SizeOf(data) > LargeThreshold
    THEN Outcome(Ok(NoValue),
                 [Stores EXCEPT !.files = MapPut(files, LargePath(h, key), Pickle(data))])
    ELSE Outcome(Ok(NoValue), Stores)

\* LocalLargeObjectStore.get(key): the entry of the database, or the file it
\* names
LargeGet(h, key) ==
    LET o == LocalGet(h, key)
    IN  IF o.ok /\ o.val.t = "PosixPath"
        THEN Ok(Unpickle(files[o.val.d]))
        ELSE o

\* LocalLargeObjectStore.delete(key): the file is removed, then the entry
LargeDelete(h, key) ==
    LET o == LocalDelete(h, key)
    IN  Outcome(o.res, [o.st EXCEPT !.files = MapDel(files, LargePath(h, key))])

LargeStore == NewStore("LocalLargeObjectStore", Bucket, <<>>)

LargeInit ==
    /\ StoresIdle(LargeStore)
    /\ ExtIdle

LargeCalled(op, key, data, res) ==
    [op |-> op, h |-> LargeStore, key |-> key, data |-> data, ok |-> res.ok]

LargeRest == UNCHANGED <<handles, written, queue, qlog, fifo, extVars>>

LargePutCall(key, data) ==
    LET o == LargePut(LargeStore, key, data)
    IN  /\ SetStores(o.st)
        /\ last' = LargeCalled("put", key, data, o.res)
        /\ LargeRest

LargeDeleteCall(key) ==
    LET o == LargeDelete(LargeStore, key)
    IN  /\ SetStores(o.st)
        /\ last' = LargeCalled("delete", key, NoValue, o.res)
        /\ LargeRest

\* get and exists read the stores and change nothing
LargeGetCall(key) ==
    /\ LargeGet(LargeStore, key).ok \in BOOLEAN
    /\ LocalExists(LargeStore, key) \in BOOLEAN
    /\ UNCHANGED vars

LargeNext ==
    \/ \E key \in LargeKeys, data \in LargeValues : LargePutCall(key, data)
    \/ \E key \in LargeKeys : LargeDeleteCall(key)
    \/ \E key \in LargeKeys : LargeGetCall(key)

SpecLarge == LargeInit /\ [][LargeNext]_vars

\* C28, as claimed: after put(k, v), of a value below or above the
\* threshold, get(k) returns v and exists(k) is true.
C28_LargePutGet ==
    last.op = "put" =>
        /\ LargeGet(last.h, last.key) = Ok(last.data)
        /\ LocalExists(last.h, last.key)

(***************************************************************************)
(* RedisQueue.peek: LRANGE key -1 -1 and _return of its reply.             *)
(***************************************************************************)
\* LRANGE key -1 -1: a list with the tail of the list, or the empty list
LRangeTail(r, k) ==
    LET l == ListAt(r, k)
    IN  [t |-> "list", v |-> IF l = <<>> THEN <<>> ELSE <<l[Len(l)]>>]

\* RedisQueue._return(r) of any reply: None is returned as it is, bytes are
\* unpickled, and for a list pickle.loads raises TypeError, which _return
\* raises again
ReturnOfReply(reply) ==
    IF reply.t = "None" THEN Ok(NoValue)
    ELSE IF reply.t = "bytes" THEN Ok(Unpickle(reply.v))
    ELSE Raise("TypeError")

\* peek(): what it returns or raises; the server is only read
PeekOf(q) == ReturnOfReply(LRangeTail(redis, q.prefix))

Peek ==
    /\ queue # NoQueue
    /\ PeekOf(queue).ok \in BOOLEAN
    /\ UNCHANGED vars

PeekNext ==
    \/ QueueNext
    \/ Peek

SpecPeek == QueueInit /\ [][PeekNext]_vars

\* C29, as claimed: peek returns what the next pop would return, the oldest
\* value of the queue, and no value when the queue is empty.
C29_PeekIsNextPop ==
    queue # NoQueue => PeekOf(queue) = Ok(PopOf(queue).val)

(***************************************************************************)
(* oscache(storage): the wrapper of a function.  The key is the text of    *)
(* (func.__name__, args, frozenset(kwargs.items())), so it shows the items *)
(* of the frozenset in the order the frozenset iterates over them.  That   *)
(* order follows the hashes of the items; two items whose hashes fall on   *)
(* the same slot of the table come in the order they were inserted, the    *)
(* order of the keywords in the call.  The hashes of strings are drawn per *)
(* process.                                                                *)
(***************************************************************************)
FuncNames == {"f", "g"}
ArgTuples == {<<>>, <<1>>}
ItemD == <<"d", 1>>
ItemE == <<"e", 2>>

\* the keywords of a call, in the order they are written
KwArgs == {<<>>, <<ItemD>>, <<ItemE>>, <<ItemD, ItemE>>, <<ItemE, ItemD>>}

Items(kw) == {kw[i] : i \in 1..Len(kw)}

\* the order in which frozenset(kwargs.items()) iterates
FrozensetOrder(kw, collide) ==
    IF Len(kw) < 2 \/ collide THEN kw ELSE <<ItemD, ItemE>>

\* "oscache-" + str((func.__name__, args, frozenset(kwargs.items())))
CacheKey(name, args, kw, collide) ==
    <<"oscache-", name, args, FrozensetOrder(kw, collide)>>

\* what the function returns for these arguments
FuncValue(name, args, kw) == [f |-> name, args |-> args, kwargs |-> Items(kw)]

\* the arguments of a call as the function sees them
CallOf(name, args, kw) == <<name, args, Items(kw)>>

Calls == {CallOf(name, args, kw) : name \in FuncNames, args \in ArgTuples, kw \in KwArgs}

\* a process: the two items collide in the table or do not; an empty storage
NewCache(collide) ==
    [collide |-> collide, storage |-> EmptyMap, runs |-> [c \in Calls |-> 0],
     calls |-> 0, call |-> <<>>, ret |-> NoValue]

CacheInit ==
    /\ handles = {}
    /\ shelf = EmptyMap
    /\ files = EmptyMap
    /\ dirs = {<<>>}
    /\ s3 = EmptyMap
    /\ redis = EmptyMap
    /\ written = EmptyMap
    /\ last = NoLast
    /\ queue = NoQueue
    /\ qlog = <<>>
    /\ fifo = <<>>
    /\ waiter = NoWaiter
    /\ callers = NoCallers
    /\ conf = NoConf
    /\ built = NoBuilt
    /\ redis_pools = EmptyMap
    /\ threads = NoThreads
    /\ tm = NoTask
    /\ asst = NoAsst
    /\ \E collide \in BOOLEAN : cache = NewCache(collide)

\* wrapper(*args, **kwargs): runs counts the executions of the function
Wrapper(name, args, kw) ==
    /\ cache.calls < MaxCached
    /\ LET key == CacheKey(name, args, kw, cache.collide)
           miss == key \notin DOMAIN cache.storage
           storage == IF miss
                      THEN MapPut(cache.storage, key, FuncValue(name, args, kw))
                      ELSE cache.storage
       IN  cache' = [cache EXCEPT
                        !.storage = storage,
                        !.runs[CallOf(name, args, kw)] = IF miss THEN @ + 1 ELSE @,
                        !.calls = @ + 1,
                        !.call = CallOf(name, args, kw),
                        !.ret = storage[key]]
    /\ UNCHANGED <<handles, storeVars, written, last, queue, qlog, fifo, waiter,
                   callers, conf, built, redis_pools, threads, tm, asst>>

CacheNext ==
    \E name \in FuncNames, args \in ArgTuples, kw \in KwArgs : Wrapper(name, args, kw)

SpecCache == CacheInit /\ [][CacheNext]_vars

\* C30, as claimed: the function is executed at most once for a function
\* name, positional arguments and keyword arguments, and a call returns the
\* value of the function for its own arguments.
C30_ExecutedOnce ==
    /\ \A c \in Calls : cache.runs[c] <= 1
    /\ cache.call # <<>> =>
           cache.ret = [f |-> cache.call[1], args |-> cache.call[2],
                        kwargs |-> cache.call[3]]

(***************************************************************************)
(* Assistant: the message history and the request built from it.  A        *)
(* message is [role, toks, tool_calls, tool_call_id]: toks is the number   *)
(* of tokens of its JSON text, tool_calls the ids of the calls a tool      *)
(* request carries (<<>> without the key), tool_call_id the id a tool      *)
(* response answers (NoCallId without the key).                              *)
(***************************************************************************)
NoCallId == <<>>

Message(role, toks) ==
    [role |-> role, toks |-> toks, tool_calls |-> <<>>, tool_call_id |-> NoCallId]

\* delta.model_dump() of a reply that asks for n tool calls
ToolRequest(toks, ids) == [Message("assistant", toks) EXCEPT !.tool_calls = ids]

\* m = {"tool_call_id": tool_call.id, "role": "tool", ...}
ToolResponse(toks, id) == [Message("tool", toks) EXCEPT !.tool_call_id = id]

SystemMessage == Message("system", 0)

\* the loop over reversed(messages): from message i down, max_tokens left
RECURSIVE TakeFit(_, _, _, _)
TakeFit(messages, i, max_tokens, rm) ==
    IF i = 0 THEN rm
    ELSE IF messages[i].toks < max_tokens
         THEN TakeFit(messages, i - 1, max_tokens - messages[i].toks,
                      <<messages[i]>> \o rm)
         ELSE rm

\* if rm and 'tool_call_id' in rm[0]: rm = rm[1:]
DropLeadingResponse(rm) ==
    IF rm # <<>> /\ rm[1].tool_call_id # NoCallId THEN Tail(rm) ELSE rm

\* Assistant.request_messages(): the system message, then the messages kept
RequestMessages(messages, max_tokens) ==
    <<SystemMessage>> \o
    DropLeadingResponse(TakeFit(messages, Len(messages), max_tokens, <<>>))

\* call_function(chunk): the request and one response per call, or nothing
\* when a tool raises
CallFunction(at, toks, rtoks, failed) ==
    IF failed THEN <<>>
    ELSE LET ids == [k \in 1..Len(rtoks) |-> <<at, k>>]
         IN  <<ToolRequest(toks, ids)>> \o
             [k \in 1..Len(rtoks) |-> ToolResponse(rtoks[k], ids[k])]

Toks == 1..MaxToks

\* the token counts of the responses of one request
ResponseToks == UNION {[1..n -> Toks] : n \in 1..MaxToolCalls}

NewAssistant(token_limit) ==
    [messages |-> <<>>, token_limit |-> token_limit, running |-> FALSE,
     rm |-> <<>>, sent |-> 0]

AssistantInit ==
    /\ handles = {}
    /\ shelf = EmptyMap
    /\ files = EmptyMap
    /\ dirs = {<<>>}
    /\ s3 = EmptyMap
    /\ redis = EmptyMap
    /\ written = EmptyMap
    /\ last = NoLast
    /\ queue = NoQueue
    /\ qlog = <<>>
    /\ fifo = <<>>
    /\ waiter = NoWaiter
    /\ callers = NoCallers
    /\ conf = NoConf
    /\ built = NoBuilt
    /\ redis_pools = EmptyMap
    /\ threads = NoThreads
    /\ tm = NoTask
    /\ cache = NoCache
    /\ \E token_limit \in 2..MaxLimit : asst = NewAssistant(token_limit)

AssistantRest ==
    UNCHANGED <<handles, storeVars, written, last, queue, qlog, fifo, waiter,
                callers, conf, built, redis_pools, threads, tm, cache>>

\* _run(prompt), before the loop: the prompt joins the history; running says
\* that the loop of _run has not returned
RunPrompt(toks) ==
    /\ Len(asst.messages) < MaxMessages
    /\ ~asst.running
    /\ asst' = [asst EXCEPT !.messages = Append(@, Message("user", toks)),
                            !.running = TRUE]
    /\ AssistantRest

\* one iteration of the loop of _run that ends the run: the request is built
\* and sent, the reply joins the history
RunStop(toks) ==
    /\ asst.running
    /\ Len(asst.messages) < MaxMessages
    /\ asst' = [asst EXCEPT
                   !.rm = RequestMessages(asst.messages, asst.token_limit),
                   !.sent = Len(asst.messages),
                   !.running = FALSE,
                   !.messages = Append(@, Message("assistant", toks))]
    /\ AssistantRest

\* one iteration of the loop of _run with finish reason "tool_calls": the
\* request is built and sent, the reply and the messages of call_function
\* join the history
RunToolCalls(toks, rtoks, failed) ==
    /\ asst.running
    /\ Len(asst.messages) + 2 + Len(rtoks) <= MaxMessages
    /\ asst' = [asst EXCEPT
                   !.rm = RequestMessages(asst.messages, asst.token_limit),
                   !.sent = Len(asst.messages),
                   !.messages = Append(@, Message("assistant", toks)) \o
                       CallFunction(Len(asst.messages) + 2, toks, rtoks, failed)]
    /\ AssistantRest

AssistantNext ==
    \/ \E toks \in Toks : RunPrompt(toks)
    \/ \E toks \in Toks : RunStop(toks)
    \/ \E toks \in Toks, rtoks \in ResponseToks, failed \in BOOLEAN :
           RunToolCalls(toks, rtoks, failed)

SpecAssistant == AssistantInit /\ [][AssistantNext]_vars

RECURSIVE SumToks(_)
SumToks(ms) == IF ms = <<>> THEN 0 ELSE ms[1].toks + SumToks(Tail(ms))

IsSuffix(s, t) == Len(s) <= Len(t) /\ s = SubSeq(t, Len(t) - Len(s) + 1, Len(t))

\* the messages of the last request, without the system message
Sent == Tail(asst.rm)

\* C31, as claimed: the request is a contiguous suffix of the history that
\* fits the token limit, and every tool response in it comes after the tool
\* request it answers.
C31_NoOrphanResponse ==
    asst.rm # <<>> =>
        /\ IsSuffix(Sent, SubSeq(asst.messages, 1, asst.sent))
        /\ SumToks(Sent) <= asst.token_limit
        /\ \A i \in 1..Len(Sent) :
               Sent[i].tool_call_id # NoCallId =>
                   \E j \in 1..(i - 1) :
                       \E k \in 1..Len(Sent[j].tool_calls) :
                           Sent[j].tool_calls[k] = Sent[i].tool_call_id

(***************************************************************************)
(* ObjectStore.__iter__: yield from self.list(recursive=True), the list    *)
(* with the default prefix "".                                             *)
(***************************************************************************)
IterOf(h) == ListOf(h, <<>>)

\* the namespaced key <<bucket, path>> lies in the namespace of h
InNamespace(h, ns) ==
    /\ ns[1] = h.bucket
    /\ h.prefix = <<>> \/ StartsWith(ns[2], h.prefix \o Slash)

\* the path of a namespaced key, relative to the prefix of h
RelativeTo(h, ns) ==
    IF h.prefix = <<>> THEN ns[2] ELSE RemovePrefix(ns[2], h.prefix \o Slash)

\* the keys put through h or its sub-stores and not deleted, relative to h
KeysUnder(h) ==
    {RelativeTo(h, NS(e[1], e[2])) :
        e \in {x \in DOMAIN written : InNamespace(h, NS(x[1], x[2]))}}

\* C32, as claimed: iterating a handle yields the keys put through it or its
\* sub-stores and not deleted, and nothing else.
C32_IterExact == \A h \in handles : IterOf(h) = KeysUnder(h)

(***************************************************************************)
(* ipop of RedisQueue and of RedisSet: a generator that pops until pop     *)
(* returns None.  The caller runs it to its end, nobody else pushes.       *)
(***************************************************************************)
\* the values pushed and added: two integers and None
DrainValues == {V1, V2, NoValue}

\* RedisQueue.ipop(), from the server r on: the values yielded and the server
\* when the generator ends
RECURSIVE QueueIpopOf(_, _, _)
QueueIpopOf(r, q, yielded) ==
    LET o == RPop(r, q.prefix)
        v == Return(o.b)
    IN  IF v = NoValue THEN [r |-> o.r, yielded |-> yielded]
        ELSE QueueIpopOf(o.r, q, Append(yielded, v))

\* RedisSet.ipop(): pop() until it returns None, SPOP handing out the members
\* in the order `order`
RECURSIVE SetIpopOf(_, _, _, _)
SetIpopOf(r, set, order, yielded) ==
    IF order = <<>> THEN [r |-> r, yielded |-> yielded]
    ELSE LET rest == SetMembers(r, set.prefix, MembersAt(r, set.prefix) \ {Head(order)})
             v == Unpickle(Head(order))
         IN  IF v = NoValue THEN [r |-> rest, yielded |-> yielded]
             ELSE SetIpopOf(rest, set, Tail(order), Append(yielded, v))

\* the orders in which the server can hand out the members m
Orders(m) ==
    {s \in [1..Cardinality(m) -> m] : \A i, j \in 1..Cardinality(m) : i # j => s[i] # s[j]}

\* a call of add(value) on the set, without a score
DrainAdd(value) ==
    /\ redis' = RedisSetAdd(ThisSet, value).r
    /\ qlog' = Logged([op |-> "add", val |-> value, res |-> <<>>,
                       before |-> MembersAt(redis, ThisSet.prefix), pending |-> fifo])
    /\ UNCHANGED <<handles, shelf, files, dirs, s3, written, last, queue, fifo, extVars>>

\* list(queue.ipop()): res is the list of the values yielded
DrainQueueIpop ==
    /\ queue # NoQueue
    /\ LET o == QueueIpopOf(redis, queue, <<>>)
       IN  /\ redis' = o.r
           /\ qlog' = Logged(QCall("ipop", NoValue, o.yielded))
           /\ fifo' = SubSeq(fifo, Len(fifo) - Len(ListAt(o.r, queue.prefix)) + 1,
                             Len(fifo))
    /\ UNCHANGED <<handles, shelf, files, dirs, s3, written, last, queue, extVars>>

\* list(set.ipop()): res is the list of the values yielded
DrainSetIpop(order) ==
    /\ LET o == SetIpopOf(redis, ThisSet, order, <<>>)
       IN  /\ redis' = o.r
           /\ qlog' = Logged([op |-> "sipop", val |-> NoValue, res |-> o.yielded,
                              before |-> MembersAt(redis, ThisSet.prefix),
                              pending |-> fifo])
    /\ UNCHANGED <<handles, shelf, files, dirs, s3, written, last, queue, fifo, extVars>>

DrainNext ==
    \/ \E h \in handles, bounded \in BOOLEAN, m \in 0..MaxBound :
           QueueOpen(h, bounded, m)
    \/ \E value \in DrainValues : Push(value)
    \/ \E value \in DrainValues : DrainAdd(value)
    \/ DrainQueueIpop
    \/ \E order \in Orders(MembersAt(redis, ThisSet.prefix)) : DrainSetIpop(order)

SpecDrain == QueueInit /\ [][DrainNext]_vars

\* the values of the pickles of a list, the tail of the list first
RECURSIVE FromTail(_)
FromTail(l) ==
    IF l = <<>> THEN <<>> ELSE <<Unpickle(l[Len(l)])>> \o FromTail(SubSeq(l, 1, Len(l) - 1))

Range(s) == {s[i] : i \in 1..Len(s)}

LastCall == qlog[Len(qlog)]

\* C33, as claimed: ipop yields every stored value, the queue's in FIFO
\* order, and ends with the collection empty.
C33_IpopDrains ==
    qlog # <<>> =>
        /\ LastCall.op = "ipop" =>
              /\ LastCall.res = FromTail(LastCall.before)
              /\ QList = <<>>
        /\ LastCall.op = "sipop" =>
              /\ Range(LastCall.res) = {Unpickle(b) : b \in LastCall.before}
              /\ Len(LastCall.res) = Cardinality(LastCall.before)
              /\ MembersAt(redis, ThisSet.prefix) = {}

(***************************************************************************)
(* clear() of the generic ObjectSet, of RedisSet and of RedisQueue.  The   *)
(* generic set lives at the key "set" of a store of any class; on a Redis  *)
(* store a RedisSet lives at the key "other" and a RedisQueue at "q".      *)
(***************************************************************************)
ClearStore == CHOOSE h \in handles : TRUE
ClearSet == NewRedisSet(ClearStore, kOther)
ClearQueue == NewRedisQueue(ClearStore, kQueue, FALSE, 0)

\* ObjectSet.clear(): self.put(self.key, set()), and ObjectSet has no put
ObjectSetClear(h, key) == Outcome(Raise("AttributeError"), Stores)

\* RedisSet.clear() and RedisQueue.clear(): DEL of the key of the collection
RedisClear(c) == Outcome(Ok(NoValue), [Stores EXCEPT !.redis = MapDel(redis, c.prefix)])

ClearInit ==
    /\ \E cls \in Classes : StoresIdle(NewStore(cls, Bucket, <<>>))
    /\ ExtIdle

\* what last keeps of a call: the result and the stores before it
ClearCalled(op, res) == [op |-> op, res |-> res, was |-> Stores]

ClearRest == UNCHANGED <<handles, written, queue, qlog, fifo, extVars>>

\* add(value) on the generic set
ClearAdd(value) ==
    LET o == ObjectSetAdd(ClearStore, kSet, value)
    IN  /\ SetStores(o.st)
        /\ last' = ClearCalled("add", o.res)
        /\ ClearRest

\* put(key, value) on the store, at another key
ClearPut(value) ==
    LET o == PutOf(ClearStore, kA, value)
    IN  /\ SetStores(o.st)
        /\ last' = ClearCalled("put", o.res)
        /\ ClearRest

\* add(value) on the RedisSet
ClearSAdd(value) ==
    /\ ClearStore.cls = "RedisObjectStore"
    /\ SetStores([Stores EXCEPT !.redis = RedisSetAdd(ClearSet, value).r])
    /\ last' = ClearCalled("set.add", Ok(NoValue))
    /\ ClearRest

\* push(value) on the RedisQueue
ClearPush(value) ==
    /\ ClearStore.cls = "RedisObjectStore"
    /\ Len(ListAt(redis, ClearQueue.prefix)) < MaxQueue
    /\ SetStores([Stores EXCEPT !.redis = PushOf(ClearQueue, value)])
    /\ last' = ClearCalled("queue.push", Ok(NoValue))
    /\ ClearRest

\* clear() on the generic set
ClearObjectSet ==
    LET o == ObjectSetClear(ClearStore, kSet)
    IN  /\ SetStores(o.st)
        /\ last' = ClearCalled("clear", o.res)
        /\ ClearRest

\* clear() on the RedisSet
ClearRedisSet ==
    LET o == RedisClear(ClearSet)
    IN  /\ ClearStore.cls = "RedisObjectStore"
        /\ SetStores(o.st)
        /\ last' = ClearCalled("set.clear", o.res)
        /\ ClearRest

\* clear() on the RedisQueue
ClearRedisQueue ==
    LET o == RedisClear(ClearQueue)
    IN  /\ ClearStore.cls = "RedisObjectStore"
        /\ SetStores(o.st)
        /\ last' = ClearCalled("queue.clear", o.res)
        /\ ClearRest

ClearValues == {V1, V2}

ClearNext ==
    \/ \E value \in ClearValues : ClearAdd(value)
    \/ \E value \in ClearValues : ClearPut(value)
    \/ \E value \in ClearValues : ClearSAdd(value)
    \/ \E value \in ClearValues : ClearPush(value)
    \/ ClearObjectSet
    \/ ClearRedisSet
    \/ ClearRedisQueue

SpecClear == ClearInit /\ [][ClearNext]_vars

\* the stores without the entry of the generic set
OtherThanSet(st) ==
    [shelf |-> MapDel(st.shelf, LocalKey(ClearStore, kSet)),
     files |-> MapDel(st.files, FilePath(ClearStore, kSet)),
     dirs  |-> st.dirs,
     s3    |-> MapDel(st.s3, S3Key(ClearStore, kSet)),
     redis |-> MapDel(st.redis, JoinPathB(ClearStore, <<kSet>>))]

\* C34, as claimed: after clear() the collection has length 0 and no members,
\* and the other keys of the store are as before.
C34_ClearEmpties ==
    /\ last.op = "clear" =>
          /\ last.res.ok
          /\ ObjectSetLen(ClearStore, kSet) = Ok(IntOf(0))
          /\ \A v \in ClearValues :
                ObjectSetIsMember(ClearStore, kSet, v) = Ok(Bool(FALSE))
          /\ OtherThanSet(Stores) = OtherThanSet(last.was)
    /\ last.op = "set.clear" =>
          /\ last.res.ok
          /\ MembersAt(redis, ClearSet.prefix) = {}
          /\ MapDel(redis, ClearSet.prefix) = MapDel(last.was.redis, ClearSet.prefix)
    /\ last.op = "queue.clear" =>
          /\ last.res.ok
          /\ ListAt(redis, ClearQueue.prefix) = <<>>
          /\ MapDel(redis, ClearQueue.prefix) = MapDel(last.was.redis, ClearQueue.prefix)

(***************************************************************************)
(* RedisSet with scored and unscored members: add(value, score) is ZADD,   *)
(* which makes the key a sorted set; remove, is_member, get, len and       *)
(* iteration are SREM, SISMEMBER, SMEMBERS and SCARD, which the server     *)
(* refuses (WRONGTYPE, a ResponseError) on a key that is not a set.        *)
(***************************************************************************)
IsSetKey(r, k) == TypeAt(r, k) \in {"none", "set"}

\* RedisSet.is_member(value): SISMEMBER
RedisSetIsMember(set, value) ==
    IF ~IsSetKey(redis, set.prefix) THEN Raise("ResponseError")
    ELSE Ok(Bool(Pickle(value) \in MembersAt(redis, set.prefix)))

\* RedisSet.__len__: SCARD
RedisSetLen(set) ==
    IF ~IsSetKey(redis, set.prefix) THEN Raise("ResponseError")
    ELSE Ok(IntOf(Cardinality(MembersAt(redis, set.prefix))))

\* RedisSet.get() and __iter__: SMEMBERS, each member unpickled
RedisSetMembers(set) ==
    IF ~IsSetKey(redis, set.prefix) THEN Raise("ResponseError")
    ELSE Ok(SetValue(RedisSetGet(set)))

\* RedisSet.remove(value): SREM; the result and the server after it
RedisSetRemove(set, value) ==
    IF ~IsSetKey(redis, set.prefix) THEN [res |-> Raise("ResponseError"), r |-> redis]
    ELSE [res |-> Ok(NoValue),
          r |-> SetMembers(redis, set.prefix,
                           MembersAt(redis, set.prefix) \ {Pickle(value)})]

\* a call of remove
MemberRemove(value) ==
    /\ Len(qlog) < MaxAdds
    /\ LET o == RedisSetRemove(ThisSet, value)
       IN  /\ redis' = o.r
           /\ qlog' = Append(qlog, [op |-> "remove", val |-> value, score |-> <<>>,
                                    ok |-> o.res.ok])
    /\ UNCHANGED <<handles, shelf, files, dirs, s3, written, last, queue, fifo, extVars>>

\* is_member, len, get and iteration
MemberRead(value) ==
    /\ RedisSetIsMember(ThisSet, value).ok \in BOOLEAN
    /\ RedisSetLen(ThisSet).ok \in BOOLEAN
    /\ RedisSetMembers(ThisSet).ok \in BOOLEAN
    /\ UNCHANGED vars

MemberNext ==
    \/ \E value \in ZValues, score \in Scores : ZSetAdd(value, <<score>>)
    \/ \E value \in ZValues : ZSetAdd(value, <<>>)
    \/ \E value \in ZValues : MemberRemove(value)
    \/ \E value \in ZValues : MemberRead(value)

SpecMember == ZSetInit /\ [][MemberNext]_vars

\* C35, as claimed: after add(v, score) the value is a member, counted by
\* len, returned by get and by iteration, and remove(v) succeeds; and no
\* mix of scored and unscored adds makes these operations fail.
C35_ScoredIsMember ==
    /\ qlog # <<>> /\ LastCall.op = "add" /\ LastCall.score # <<>> =>
          /\ LastCall.ok
          /\ RedisSetIsMember(ThisSet, LastCall.val) = Ok(Bool(TRUE))
          /\ RedisSetMembers(ThisSet).ok
          /\ LastCall.val \in RedisSetMembers(ThisSet).val.d
          /\ RedisSetLen(ThisSet) =
                 Ok(IntOf(Cardinality(RedisSetMembers(ThisSet).val.d)))
    /\ \A value \in ZValues :
          /\ RedisSetIsMember(ThisSet, value).ok
          /\ RedisSetRemove(ThisSet, value).res.ok
          /\ RedisSetAddScore(ThisSet, value, <<>>).ok
    /\ RedisSetLen(ThisSet).ok
    /\ RedisSetMembers(ThisSet).ok

(***************************************************************************)
(* S3ObjectStore.put of a file path: _to_bytes reads the file and takes    *)
(* the content type from get_content_type, the MIME type libmagic finds    *)
(* in the file.                                                            *)
(***************************************************************************)
\* the MIME types of the files put: text, an image, a PDF
Mimes == {"text/plain", "image/png", "application/pdf"}

\* a PosixPath to a file whose content has the MIME type mime
PathTo(mime) == [t |-> "PosixPath", d |-> mime]

Paths == {PathTo(mime) : mime \in Mimes}

\* _to_bytes(o) of a path: the bytes of the file, get_content_type(o)
ToBytesPath(o) == [b |-> [enc |-> "raw", v |-> o], ctype |-> o.d]

\* S3ObjectStore.put(key, data) of a value or of a path
S3PutAny(h, key, data) ==
    LET e == IF data.t = "PosixPath" THEN ToBytesPath(data) ELSE ToBytes(data)
    IN  Outcome(Ok(NoValue),
                [Stores EXCEPT !.s3 = MapPut(s3, S3Key(h, key),
                                             S3Object(e.b, e.ctype, ""))])

SniffPut(h, key, data) ==
    LET o == S3PutAny(h, key, data)
    IN  /\ SetStores(o.st)
        /\ last' = [NoLast EXCEPT !.op = "put", !.h = h, !.self = SelfAfter(h),
                                  !.ok = o.res.ok, !.changed = (o.st # Stores)]
        /\ UNCHANGED <<handles, written, queue, qlog, fifo, extVars>>

SniffNext ==
    \/ \E h \in handles, key \in DecodeKeys, data \in Values \cup Paths :
           SniffPut(h, key, data)
    \/ \E h \in handles, key \in DecodeKeys : Get(h, key)

SpecSniff == DecodeInit /\ [][SniffNext]_vars

\* C36, as claimed: get of a key written by put never fails with the
\* unsupported-content-type error.
C36_PutIsDecodable ==
    \A h \in handles, key \in DecodeKeys :
        S3Key(h, key) \in DOMAIN s3 => GetOf(h, key).err # "IOError"

(***************************************************************************)
(* The frame of put and delete (specification Spec).                       *)
(***************************************************************************)
\* get and exists of every namespaced key other than that of `key` through h
\* return after the step what they returned before it
FrameOf(h, key) ==
    \A h2 \in handles, key2 \in Keys :
        NS(h2, key2) # NS(h, key) =>
            /\ GetOf(h2, key2)' = GetOf(h2, key2)
            /\ ExistsOf(h2, key2)' = ExistsOf(h2, key2)

\* C37, as claimed: put(k, v) and delete(k) change what get and exists return
\* for the namespaced key of k only, whether the call succeeds or fails.
C37_Frame ==
    [][\A h \in handles, key \in Keys :
          /\ (\E data \in Values : Put(h, key, data)) => FrameOf(h, key)
          /\ Delete(h, key) => FrameOf(h, key)]_vars

====
